---- MODULE Spec2Model ----
(***************************************************************************)
(* NomadCast daemon (nomadcastd): the job queue, the per-show contexts,    *)
(* the single worker, config reload and the on-disk cache, as a state      *)
(* machine.                                                                *)
(*                                                                         *)
(* Conventions of the model                                                *)
(*  - time.time() is the variable now, a positive integer (0 stands for    *)
(*    "unset": last_refresh = None, next_refresh_time = 0.0).              *)
(*  - A file of episodes/ is its size in bytes; 0 means "no such file".    *)
(*  - A feed is the list of its items in the order _sorted_items gives     *)
(*    them; an item is the list of the filenames of its media enclosures   *)
(*    of this show.                                                        *)
(*  - shows/<destination_hash>/ is the show directory: the disk is indexed *)
(*    by destination, not by show_id (storage.show_directory).             *)
(*  - A ShowContext dropped by reload_config while the worker still holds  *)
(*    it lives on as the worker's detached context (worker.dctx).          *)
(*  - write_atomic may raise (disk full, permission): every call of it is  *)
(*    a point where a handler may take its except path.                    *)
(*  - enqueue_refresh and enqueue_media_fetch are one step each (the lock  *)
(*    section and the queue.put that follows it); a handler is two steps,  *)
(*    split at its fetch.                                                  *)
(*                                                                         *)
(* Specifications                                                          *)
(*  - Spec: the scheduling of jobs (requests, reloads and the worker in    *)
(*    any interleaving, failing storage).                                  *)
(*  - SpecCache: the cache of two shows of one destination.                *)
(*  - SpecEnqueue, SpecFailure, SpecEvict: enqueue_refresh,                *)
(*    _register_failure and _ensure_space_for, one call each on every      *)
(*    context of a bounded set.                                            *)
(*  - SpecServe: one show served while its jobs fail and time passes.      *)
(*  - SpecStop: shutdown of a running daemon, with a fair worker thread.   *)
(*  - SpecHttp: one GET request of the HTTP server on every state of a     *)
(*    bounded set.                                                         *)
(*  - SpecRewrite, SpecReload, SpecWrite: rewrite_rss, reload_config and   *)
(*    write_atomic, one call each on every input of a bounded set.         *)
(*  - SpecRefresh: _handle_refresh, one run on every state of one show    *)
(*    and every publisher feed of a bounded set.                           *)
(*  - SpecSelect, SpecParsing, SpecState: the ordering of feed items, the  *)
(*    functions of parsing.py and load/save of state.json, one call each   *)
(*    on every input of a bounded set.                                     *)
(*  - SpecRange: _parse_range, one call on every header and file size.    *)
(*  - SpecPromote: the storing of a downloaded payload, byte by byte.      *)
(*  - SpecRace: one GET /media request, step by step, while the worker     *)
(*    deletes and promotes the file.                                       *)
(*  - SpecGate: feed requests after the startup refresh, with a clock      *)
(*    that advances.                                                       *)
(*  - SpecLive: one subscription whose publisher answers every fetch,      *)
(*    with a fair worker thread.                                           *)
(*  The clock of Spec, SpecCache, SpecStop and SpecLive stands still; the   *)
(*  others take any time up to MaxTime.                                    *)
(***************************************************************************)
EXTENDS Integers, Sequences, FiniteSets, TLC

\* ---------------------------------------------------------------- bounds
MaxTime == 3
MaxQueue == 2
MaxSize == 2
MaxFail == 2
MaxCached == 2
MaxCount == 4
MaxEpisodes == 3
MaxNewSize == 3
MaxBudget == 4
MaxItems == 2
MaxEnclosures == 2
MaxUris == 2
MaxData == 2
MaxName == 3
MaxFeedItems == 3
MaxDate == 2

\* ---------------------------------------------------- configuration, constants
RssPollSeconds == 2
RetryBackoffSeconds == 2
MaxBytesPerShow == 2
EpisodesPerShow == 1
BackoffCap == 8

Shows == {"a", "b"}
Files == {"f1", "f2", "f3"}
Sizes == 1..MaxSize
Messages == {"fetch", "parse", "io", "mirror"}

\* The destination hash of a show: both shows are published by one destination.
DestOf(s) == "d1"
Dests == {DestOf(s) : s \in Shows}

Min(x, y) == IF x < y THEN x ELSE y

RECURSIVE Pow2(_)
Pow2(n) == IF n <= 0 THEN 1 ELSE 2 * Pow2(n - 1)

RECURSIVE SumSizes(_)
SumSizes(eps) == IF eps = <<>> THEN 0 ELSE Head(eps).size_bytes + SumSizes(Tail(eps))

RECURSIVE SumFiles(_, _)
SumFiles(episodes, fs) ==
  IF fs = {} THEN 0
  ELSE LET f == CHOOSE x \in fs : TRUE IN episodes[f] + SumFiles(episodes, fs \ {f})

\* ------------------------------------------------------------------ types
CachedEpisode(f, idx, size) == [filename |-> f, order_index |-> idx, size_bytes |-> size]

\* ShowState(subscription_uri, show_name) with the dataclass defaults.
DefaultState == [last_refresh |-> 0, last_error |-> "none", failure_count |-> 0,
                 cached_episodes |-> <<>>]

NoCtx == [present |-> FALSE, state |-> DefaultState, refresh_pending |-> FALSE,
          media_pending |-> {}, next_refresh_time |-> 0, order_map |-> <<>>]

\* ShowContext(...) with the dataclass defaults.
NewContext(state) == [present |-> TRUE, state |-> state, refresh_pending |-> FALSE,
                      media_pending |-> {}, next_refresh_time |-> 0, order_map |-> <<>>]

RefreshJob(s) == [type |-> "refresh", show_id |-> s, payload |-> "none"]
MediaJob(s, f) == [type |-> "media", show_id |-> s, payload |-> f]
StopJob == [type |-> "stop", show_id |-> "", payload |-> "none"]
NoJob == [type |-> "none", show_id |-> "", payload |-> "none"]

NoFeed == [present |-> FALSE, wellformed |-> FALSE, items |-> <<>>]
Feed(items) == [present |-> TRUE, wellformed |-> TRUE, items |-> items]
MalformedFeed == [present |-> TRUE, wellformed |-> FALSE, items |-> <<>>]

EmptyDir == [f \in Files |-> 0]
EmptyShowDir == [has_state |-> FALSE, state |-> DefaultState, publisher |-> NoFeed,
                 client |-> NoFeed, episodes |-> EmptyDir]

VARIABLES show_contexts, queue, worker, stop_event, started, now, disk, call, paths

vars == <<show_contexts, queue, worker, stop_event, started, now, disk, call, paths>>

IdleWorker == [pc |-> "idle", job |-> NoJob, detached |-> FALSE, dctx |-> NoCtx,
               lock |-> "none"]
NoCall == [op |-> "none"]

\* A path of the file system: absent, or a file with its bytes.
Absent == [exists |-> FALSE, data |-> <<>>]
File(data) == [exists |-> TRUE, data |-> data]

\* The two paths write_atomic touches, its target and the target's .tmp
\* sibling, and the path in episodes/ a Media job renames its target to.
NoFiles == [target |-> Absent, tmp |-> Absent, final |-> Absent]

\* ------------------------------------------------------- helpers of the handlers

\* The worker's ShowContext: the live one of the job's show, or the one it kept
\* after reload_config dropped it from the map.
WorkerCtx == IF worker.detached THEN worker.dctx ELSE show_contexts[worker.job.show_id]

\* _handle_refresh: ordered_items[: episodes_per_show].
SelectItems(items) == SubSeq(items, 1, Min(Len(items), EpisodesPerShow))

\* order_map[filename] = index: a dict keeps the position of the first insertion.
OrderMapPut(om, f, idx) ==
  IF \E k \in 1..Len(om) : om[k].filename = f
  THEN [k \in 1..Len(om) |-> IF om[k].filename = f
                             THEN [filename |-> f, order_index |-> idx] ELSE om[k]]
  ELSE Append(om, [filename |-> f, order_index |-> idx])

RECURSIVE OrderMapOfItem(_, _, _)
OrderMapOfItem(om, urls, idx) ==
  IF urls = <<>> THEN om
  ELSE OrderMapOfItem(OrderMapPut(om, Head(urls), idx), Tail(urls), idx)

\* The order_map _handle_refresh builds from items i..Len(selected) (index i-1 ...).
RECURSIVE OrderMapFrom(_, _, _)
OrderMapFrom(om, selected, i) ==
  IF i > Len(selected) THEN om
  ELSE OrderMapFrom(OrderMapOfItem(om, selected[i], i - 1), selected, i + 1)

BuildOrderMap(items) == OrderMapFrom(<<>>, SelectItems(items), 1)

OrderMapFiles(om) == {om[k].filename : k \in 1..Len(om)}
OrderMapGet(om, f, default) ==
  IF f \in OrderMapFiles(om)
  THEN (CHOOSE e \in {om[k] : k \in 1..Len(om)} : e.filename = f).order_index
  ELSE default

\* A reconciliation that deletes nothing.
KeepStale(episodes, om) == episodes

\* _load_cached_episodes, first loop: unlink every file that is not in order_map.
DropStale(episodes, om) == [f \in Files |-> IF f \in OrderMapFiles(om) THEN episodes[f] ELSE 0]

\* _load_cached_episodes, second loop: the order_map entries whose file exists.
RECURSIVE CachedFrom(_, _)
CachedFrom(om, episodes) ==
  IF om = <<>> THEN <<>>
  ELSE LET e == Head(om)
           rest == CachedFrom(Tail(om), episodes)
       IN IF episodes[e.filename] > 0
          THEN <<CachedEpisode(e.filename, e.order_index, episodes[e.filename])>> \o rest
          ELSE rest

\* storage.cached_episode_filenames
CachedFilenames(eps) == {eps[k].filename : k \in 1..Len(eps)}

\* sorted(cached, key=order_index, reverse=True): stable, descending.
RECURSIVE InsertDesc(_, _)
InsertDesc(sorted, e) ==
  IF sorted = <<>> THEN <<e>>
  ELSE IF Head(sorted).order_index >= e.order_index
       THEN <<Head(sorted)>> \o InsertDesc(Tail(sorted), e)
       ELSE <<e>> \o sorted

\* The same list in ascending order: the newest episode first to go.
RECURSIVE SortAsc(_)
SortAsc(eps) ==
  IF eps = <<>> THEN <<>>
  ELSE LET m == CHOOSE k \in 1..Len(eps) :
                  \A i \in 1..Len(eps) : eps[k].order_index <= eps[i].order_index
       IN <<eps[m]>> \o SortAsc(SubSeq(eps, 1, m - 1) \o SubSeq(eps, m + 1, Len(eps)))

RECURSIVE SortDesc(_)
SortDesc(eps) ==
  IF eps = <<>> THEN <<>>
  ELSE InsertDesc(SortDesc(SubSeq(eps, 1, Len(eps) - 1)), eps[Len(eps)])

WithoutFile(eps, f) == SelectSeq(eps, LAMBDA e : e.filename # f)

\* The while loop of _ensure_space_for.
RECURSIVE EvictLoop(_, _, _, _, _, _)
EvictLoop(evictable, cached, episodes, total, new_size, max_bytes) ==
  IF evictable = <<>> \/ ~(total + new_size > max_bytes)
  THEN [cached |-> cached, episodes |-> episodes, total |-> total]
  ELSE LET oldest == Head(evictable)
           exists == episodes[oldest.filename] > 0
       IN EvictLoop(Tail(evictable),
                    WithoutFile(cached, oldest.filename),
                    IF exists THEN [episodes EXCEPT ![oldest.filename] = 0] ELSE episodes,
                    IF exists THEN total - oldest.size_bytes ELSE total,
                    new_size, max_bytes)

\* _ensure_space_for(context, new_size) with config.max_bytes_per_show =
\* max_bytes, on the cached list and the episodes/ directory: what it returns
\* (ok), what it leaves, and whether it reached save_show_state (saves).
EnsureSpaceFor(cached, episodes, new_size, max_bytes) ==
  LET total == SumSizes(cached) IN
  IF max_bytes <= 0
  THEN [ok |-> TRUE, cached |-> cached, episodes |-> episodes, saves |-> FALSE]
  ELSE IF total + new_size <= max_bytes
  THEN [ok |-> TRUE, cached |-> cached, episodes |-> episodes, saves |-> FALSE]
  ELSE LET r == EvictLoop(SortDesc(cached), cached, episodes, total, new_size, max_bytes)
       IN [ok |-> r.total + new_size <= max_bytes, cached |-> r.cached,
           episodes |-> r.episodes, saves |-> TRUE]

\* retry_backoff_seconds * min(2 ** failure_count, 8)
Backoff(failure_count) == RetryBackoffSeconds * Min(Pow2(failure_count), BackoffCap)

\* A backoff computed before the count is incremented.
RegisterFailureStale(c, message, t) ==
  [c EXCEPT !.state.last_error = message,
            !.state.failure_count = c.state.failure_count + 1,
            !.next_refresh_time = t + Backoff(c.state.failure_count)]

\* The lock section of _register_failure on a context, at time t.
RegisterFailureCtx(c, message, t) ==
  LET count == c.state.failure_count + 1
  IN [c EXCEPT !.state.last_error = message,
               !.state.failure_count = count,
               !.next_refresh_time = t + Backoff(count)]

\* A poll interval that has to be exceeded, not reached.
RefreshEligibleLate(c, force, t) ==
  /\ ~c.refresh_pending
  /\ \/ force
     \/ /\ ~(c.state.last_refresh # 0 /\ t - c.state.last_refresh <= RssPollSeconds)
        /\ ~(t < c.next_refresh_time)

\* The tests of enqueue_refresh under the lock: TRUE when the job is to be queued.
RefreshEligible(c, force, t) ==
  /\ ~c.refresh_pending
  /\ \/ force
     \/ /\ ~(c.state.last_refresh # 0 /\ t - c.state.last_refresh < RssPollSeconds)
        /\ ~(t < c.next_refresh_time)

\* rss.rewrite_rss with strict_cached: the first episodes_per_show items all of
\* whose media enclosures are cached (an item with none is dropped).
RECURSIVE AllowedItems(_, _, _)
AllowedItems(items, cached_filenames, allowed) ==
  IF items = <<>> \/ Len(allowed) >= EpisodesPerShow THEN allowed
  ELSE LET item == Head(items)
           include == item # <<>> /\ \A k \in 1..Len(item) : item[k] \in cached_filenames
       IN AllowedItems(Tail(items), cached_filenames,
                       IF include THEN Append(allowed, item) ELSE allowed)

RewriteRss(feed, cached_filenames) == Feed(AllowedItems(feed.items, cached_filenames, <<>>))

\* storage.load_show_state on shows/<destination>/state.json.
LoadShowState(dir) == IF dir.has_state THEN dir.state ELSE DefaultState

\* ---------------------------------------------------------------- the daemon

\* NomadCastDaemon.__init__ on an empty storage path.
Init ==
  /\ show_contexts = [s \in Shows |-> NoCtx]
  /\ queue = <<>>
  /\ worker = IdleWorker
  /\ stop_event = FALSE
  /\ started = FALSE
  /\ now = 1
  /\ disk = [d \in Dests |-> EmptyShowDir]
  /\ call = NoCall
  /\ paths = NoFiles

\* A reload that builds every ShowContext anew.
ReloadedContextsFresh(subs) ==
  [s \in Shows |->
     IF s \in subs THEN NewContext(LoadShowState(disk[DestOf(s)])) ELSE NoCtx]

\* reload_config: the new show map for the subscriptions subs.
ReloadedContexts(subs) ==
  [s \in Shows |->
     IF s \in subs
     THEN LET state == LoadShowState(disk[DestOf(s)])
          IN IF show_contexts[s].present
             THEN [show_contexts[s] EXCEPT !.state = state]
             ELSE NewContext(state)
     ELSE NoCtx]

WorkerBusy == worker.pc \in {"refresh", "media"}

\* The worker keeps the context it looked up when reload drops it from the map.
WorkerAfterReload(subs) ==
  IF WorkerBusy /\ ~worker.detached /\ worker.job.show_id \notin subs
  THEN [worker EXCEPT !.detached = TRUE, !.dctx = show_contexts[worker.job.show_id]]
  ELSE worker

\* The shows of a subscription list (the config file's order).
Range(q) == {q[k] : k \in 1..Len(q)}

\* The lines of the subscription list: the locator of a show, or a string
\* parse_subscription_uri rejects.
Locators == Shows \cup {"bad"}

\* reload_config, its first loop: the locators that parse, in the list's order
\* (a ValueError is logged and the locator skipped).
Subscriptions(uris) == SelectSeq(uris, LAMBDA u : u \in Shows)

RECURSIVE RefreshJobs(_)
RefreshJobs(subs) ==
  IF subs = <<>> THEN <<>> ELSE <<RefreshJob(Head(subs))>> \o RefreshJobs(Tail(subs))

\* start(): reload_config, start the worker, _queue_initial_refreshes
\* (enqueue_refresh(show_id, force=True) for every show of the map).
Start(uris) ==
  /\ ~started
  /\ started' = TRUE
  /\ LET subs == Subscriptions(uris)
     IN /\ show_contexts' = [s \in Shows |->
              IF s \in Range(subs)
              THEN [ReloadedContexts(Range(subs))[s] EXCEPT !.refresh_pending = TRUE]
              ELSE NoCtx]
        /\ queue' = queue \o RefreshJobs(subs)
  /\ worker' = [IdleWorker EXCEPT !.pc = "loop"]
  /\ UNCHANGED <<stop_event, now, disk, call, paths>>

\* reload_config with the subscription list uris.
ReloadConfig(uris) ==
  /\ show_contexts' = ReloadedContexts(Range(Subscriptions(uris)))
  /\ worker' = WorkerAfterReload(Range(Subscriptions(uris)))
  /\ UNCHANGED <<queue, stop_event, started, now, disk, paths>>

\* POST /reload: reload_config.
Reload(uris) ==
  /\ started /\ ~stop_event
  /\ ReloadConfig(uris)
  /\ UNCHANGED call

\* with context.lock in a thread other than the worker: entered only while the
\* worker does not hold the lock of show s.
LockFree(s) == worker.lock # s

\* enqueue_refresh(show_id, force=force): the lock section, then queue.put.
EnqueueRefresh(s, force) ==
  IF show_contexts[s].present /\ RefreshEligible(show_contexts[s], force, now)
  THEN /\ LockFree(s)
       /\ Len(queue) < MaxQueue
       /\ show_contexts' = [show_contexts EXCEPT ![s].refresh_pending = TRUE]
       /\ queue' = Append(queue, RefreshJob(s))
  ELSE UNCHANGED <<show_contexts, queue>>

\* The test of enqueue_media_fetch under the lock: TRUE when the job is to be queued.
MediaEligible(c, f) == f \notin c.media_pending

\* enqueue_media_fetch(show_id, filename): the lock section, then queue.put.
EnqueueMediaFetch(s, f) ==
  IF show_contexts[s].present /\ MediaEligible(show_contexts[s], f)
  THEN /\ LockFree(s)
       /\ Len(queue) < MaxQueue
       /\ show_contexts' = [show_contexts EXCEPT ![s].media_pending = @ \cup {f}]
       /\ queue' = Append(queue, MediaJob(s, f))
  ELSE UNCHANGED <<show_contexts, queue>>

\* stop(): set the flag and queue the sentinel.
Stop ==
  /\ started /\ ~stop_event
  /\ stop_event' = TRUE
  /\ queue' = Append(queue, StopJob)
  /\ UNCHANGED <<show_contexts, worker, started, now, disk, call, paths>>

\* ---------------------------------------------------------------- the worker

\* A loop whose test does not read the stop flag.
WorkerLoopForever ==
  /\ worker.pc = "loop"
  /\ worker' = [worker EXCEPT !.pc = "get"]
  /\ UNCHANGED <<show_contexts, queue, stop_event, started, now, disk, call, paths>>

\* _worker_loop: the test of the while loop.
WorkerLoop ==
  /\ worker.pc = "loop"
  /\ worker' = [worker EXCEPT !.pc = IF stop_event THEN "stopped" ELSE "get"]
  /\ UNCHANGED <<show_contexts, queue, stop_event, started, now, disk, call, paths>>

\* queue.get(timeout=0.2) raised queue.Empty: continue.
WorkerTimeout ==
  /\ worker.pc = "get"
  /\ queue = <<>>
  /\ worker' = [worker EXCEPT !.pc = "loop"]
  /\ UNCHANGED <<show_contexts, queue, stop_event, started, now, disk, call, paths>>

\* A worker that calls the fetcher inside its with context.lock block.
FetchLockHeld(s) == s

\* The ShowContext lock the worker holds when its handler calls the fetcher:
\* none, the with block of _handle_refresh ends before the try, and
\* _handle_media_fetch takes the lock only after the fetch.
FetchLock(s) == "none"

\* A handler without the finally clause.
KeepMediaPending(c, f) == c

\* The finally clause of _handle_media_fetch.
ClearMediaPending(c, f) == [c EXCEPT !.media_pending = @ \ {f}]

\* queue.get returned a job: the dispatch of _worker_loop and the head of the
\* handler, up to its fetch (refresh: the context lookup and the clearing of
\* refresh_pending; media: the context lookup and the test for a cached file).
WorkerGet ==
  /\ worker.pc = "get"
  /\ queue # <<>>
  /\ LET job == Head(queue)
         s == job.show_id
     IN /\ queue' = Tail(queue)
        /\ CASE job.type = "stop" ->
                  /\ worker' = [worker EXCEPT !.pc = "stopped"]
                  /\ UNCHANGED show_contexts
             [] job.type = "refresh" /\ ~show_contexts[s].present ->
                  /\ worker' = [worker EXCEPT !.pc = "loop"]
                  /\ UNCHANGED show_contexts
             [] job.type = "refresh" /\ show_contexts[s].present ->
                  /\ worker' = [pc |-> "refresh", job |-> job, detached |-> FALSE,
                                dctx |-> NoCtx, lock |-> FetchLock(s)]
                  /\ show_contexts' = [show_contexts EXCEPT ![s].refresh_pending = FALSE]
             [] job.type = "media" /\ ~show_contexts[s].present ->
                  /\ worker' = [worker EXCEPT !.pc = "loop"]
                  /\ UNCHANGED show_contexts
             [] job.type = "media" /\ show_contexts[s].present
                  /\ disk[DestOf(s)].episodes[job.payload] > 0 ->
                  /\ worker' = [worker EXCEPT !.pc = "loop"]
                  /\ show_contexts' = [show_contexts EXCEPT
                                          ![s] = ClearMediaPending(@, job.payload)]
             [] job.type = "media" /\ show_contexts[s].present
                  /\ disk[DestOf(s)].episodes[job.payload] = 0 ->
                  /\ worker' = [pc |-> "media", job |-> job, detached |-> FALSE,
                                dctx |-> NoCtx, lock |-> FetchLock(s)]
                  /\ UNCHANGED show_contexts
  /\ UNCHANGED <<stop_event, started, now, disk, call, paths>>

\* The points where _handle_refresh may raise: the fetch, the write of
\* publisher_rss.xml, the parse (a malformed feed), save_show_state, the write
\* of client_rss.xml, the mirror step (_should_mirror reads config fields that
\* NomadCastConfig may lack; _ensure_mirror catches OSError only).
RefreshFailPoints ==
  {"none", "fetch", "publisher_write", "state_write", "client_write", "mirror"}

\* A refresh that queues no download.
NoMissingFiles(om, episodes) == <<>>

\* The files of an order_map that are not in episodes/, in order_map order.
RECURSIVE MissingFiles(_, _)
MissingFiles(om, episodes) ==
  IF om = <<>> THEN <<>>
  ELSE IF episodes[Head(om).filename] = 0
       THEN <<Head(om).filename>> \o MissingFiles(Tail(om), episodes)
       ELSE MissingFiles(Tail(om), episodes)

Saved(dir, state) == [dir EXCEPT !.has_state = TRUE, !.state = state]

\* The try block of _handle_refresh on context c and show directory dir, the
\* fetch having returned feed (or raised: fail = "fetch"), at time t: the
\* context and the directory it leaves, the message of the exception it raised
\* ("none": it ran to its end) and the filenames it passed to
\* enqueue_media_fetch.
RefreshOutcome(c, dir, feed, fail, t) ==
  IF fail = "fetch" THEN [ctx |-> c, dir |-> dir, msg |-> "fetch", enq |-> <<>>]
  ELSE IF fail = "publisher_write" THEN [ctx |-> c, dir |-> dir, msg |-> "io", enq |-> <<>>]
  ELSE LET dir1 == [dir EXCEPT !.publisher = feed] IN
  IF ~feed.wellformed THEN [ctx |-> c, dir |-> dir1, msg |-> "parse", enq |-> <<>>]
  ELSE LET om == BuildOrderMap(feed.items)
           enq == MissingFiles(om, dir1.episodes)
           episodes2 == DropStale(dir1.episodes, om)
           c2 == [c EXCEPT !.order_map = om,
                           !.state = [last_refresh |-> t, last_error |-> "none",
                                      failure_count |-> 0,
                                      cached_episodes |-> CachedFrom(om, episodes2)]]
           dir2 == [dir1 EXCEPT !.episodes = episodes2]
           dir3 == Saved(dir2, c2.state)
           client == RewriteRss(feed, CachedFilenames(c2.state.cached_episodes))
       IN IF fail = "state_write" THEN [ctx |-> c2, dir |-> dir2, msg |-> "io", enq |-> enq]
          ELSE IF fail = "client_write" THEN [ctx |-> c2, dir |-> dir3, msg |-> "io", enq |-> enq]
          ELSE [ctx |-> c2, dir |-> [dir3 EXCEPT !.client = client],
                msg |-> IF fail = "mirror" THEN "mirror" ELSE "none", enq |-> enq]

\* enqueue_media_fetch called by the worker for each filename of fs on the live
\* map: the lock section and the put follow each other.
RECURSIVE WorkerEnqueue(_, _, _, _)
WorkerEnqueue(ctxs, q, s, fs) ==
  IF fs = <<>> THEN [ctxs |-> ctxs, queue |-> q]
  ELSE LET f == Head(fs) IN
       IF ctxs[s].present /\ MediaEligible(ctxs[s], f)
       THEN WorkerEnqueue([ctxs EXCEPT ![s].media_pending = @ \cup {f}],
                          Append(q, MediaJob(s, f)), s, Tail(fs))
       ELSE WorkerEnqueue(ctxs, q, s, Tail(fs))

\* The except clause of a handler: _register_failure, whose own save_show_state
\* raises when save_fails (the exception then leaves the handler).
AfterFailure(o, save_fails, t) ==
  IF o.msg = "none" THEN [ctx |-> o.ctx, dir |-> o.dir]
  ELSE LET c == RegisterFailureCtx(o.ctx, o.msg, t)
       IN [ctx |-> c, dir |-> IF save_fails THEN o.dir ELSE Saved(o.dir, c.state)]

\* Where the worker goes when a handler returns, or dies when it raised.
WorkerAfterJob(raised) == [IdleWorker EXCEPT !.pc = IF raised THEN "crashed" ELSE "loop"]

\* _handle_refresh from the return of its fetch to its end.
HandleRefresh(feed, fail, save_fails) ==
  /\ worker.pc = "refresh"
  /\ LET s == worker.job.show_id
         d == DestOf(s)
         o == RefreshOutcome(WorkerCtx, disk[d], feed, fail, now)
         a == AfterFailure(o, save_fails, now)
         base == IF worker.detached THEN show_contexts
                 ELSE [show_contexts EXCEPT ![s] = a.ctx]
         e == WorkerEnqueue(base, queue, s, o.enq)
     IN /\ save_fails => o.msg # "none"
        /\ a.ctx.state.failure_count <= MaxFail
        /\ Len(e.queue) > Len(queue) => Len(e.queue) <= MaxQueue
        /\ show_contexts' = e.ctxs
        /\ queue' = e.queue
        /\ disk' = [disk EXCEPT ![d] = a.dir]
        /\ worker' = WorkerAfterJob(save_fails)
  /\ UNCHANGED <<stop_event, started, now, paths>>

\* The fetch of _handle_refresh returns and the handler runs to its end.
RefreshDone(feed, fail, save_fails) ==
  /\ HandleRefresh(feed, fail, save_fails)
  /\ UNCHANGED call

\* The points where _handle_media_fetch may raise: the fetch, save_show_state
\* in _ensure_space_for, the write under tmp/, save_show_state, the write of
\* client_rss.xml (and the parse of a malformed publisher_rss.xml), the mirror
\* step.
MediaFailPoints ==
  {"none", "fetch", "evict_write", "tmp_write", "state_write", "client_write", "mirror"}

\* The try block of _handle_media_fetch for filename f and a payload of size
\* bytes, after the test for a cached file.
MediaOutcome(c, dir, f, size, fail) ==
  IF fail = "fetch" THEN [ctx |-> c, dir |-> dir, msg |-> "fetch", stored |-> FALSE]
  ELSE LET r == IF MaxBytesPerShow > 0
                THEN EnsureSpaceFor(c.state.cached_episodes, dir.episodes, size, MaxBytesPerShow)
                ELSE [ok |-> TRUE, cached |-> c.state.cached_episodes,
                      episodes |-> dir.episodes, saves |-> FALSE]
           c1 == [c EXCEPT !.state.cached_episodes = r.cached]
           dir1 == [dir EXCEPT !.episodes = r.episodes]
           dir2 == IF r.saves THEN Saved(dir1, c1.state) ELSE dir1
           rank == OrderMapGet(c1.order_map, f, Len(c1.order_map))
           c2 == [c1 EXCEPT !.state.cached_episodes = Append(@, CachedEpisode(f, rank, size))]
           dir3 == [dir2 EXCEPT !.episodes[f] = size]
           dir4 == Saved(dir3, c2.state)
           client == RewriteRss(dir4.publisher, CachedFilenames(c2.state.cached_episodes))
       IN IF r.saves /\ fail = "evict_write"
          THEN [ctx |-> c1, dir |-> dir1, msg |-> "io", stored |-> FALSE]
          ELSE IF ~r.ok THEN [ctx |-> c1, dir |-> dir2, msg |-> "none", stored |-> FALSE]
          ELSE IF fail = "tmp_write"
          THEN [ctx |-> c1, dir |-> dir2, msg |-> "io", stored |-> FALSE]
          ELSE IF fail = "state_write"
          THEN [ctx |-> c2, dir |-> dir3, msg |-> "io", stored |-> TRUE]
          ELSE IF ~dir4.publisher.present
          THEN [ctx |-> c2, dir |-> dir4,
                msg |-> IF fail = "mirror" THEN "mirror" ELSE "none", stored |-> TRUE]
          ELSE IF ~dir4.publisher.wellformed
          THEN [ctx |-> c2, dir |-> dir4, msg |-> "parse", stored |-> TRUE]
          ELSE IF fail = "client_write"
          THEN [ctx |-> c2, dir |-> dir4, msg |-> "io", stored |-> TRUE]
          ELSE [ctx |-> c2, dir |-> [dir4 EXCEPT !.client = client],
                msg |-> IF fail = "mirror" THEN "mirror" ELSE "none", stored |-> TRUE]

\* The fetch of _handle_media_fetch returns and the handler runs to its end.
MediaDone(size, fail, save_fails) ==
  /\ worker.pc = "media"
  /\ LET s == worker.job.show_id
         f == worker.job.payload
         d == DestOf(s)
         o == MediaOutcome(WorkerCtx, disk[d], f, size, fail)
         a == AfterFailure(o, save_fails, now)
         c == ClearMediaPending(a.ctx, f)
     IN /\ save_fails => o.msg # "none"
        /\ c.state.failure_count <= MaxFail
        /\ Len(c.state.cached_episodes) <= MaxCached
        /\ show_contexts' = IF worker.detached THEN show_contexts
                            ELSE [show_contexts EXCEPT ![s] = c]
        /\ disk' = [disk EXCEPT ![d] = a.dir]
        /\ worker' = WorkerAfterJob(save_fails)
  /\ UNCHANGED <<queue, stop_event, started, now, call, paths>>

\* ------------------------------------------------------- the specifications

\* GET /feeds/<show>: _handle_feed calls enqueue_refresh.
RequestFeed(s) ==
  /\ started /\ ~stop_event
  /\ EnqueueRefresh(s, FALSE)
  /\ UNCHANGED <<worker, stop_event, started, now, disk, call, paths>>

\* GET /media/<show>/<filename> with the file missing from episodes/ (or the
\* show unknown): _handle_media calls enqueue_media_fetch.
RequestMedia(s, f) ==
  /\ started /\ ~stop_event
  /\ show_contexts[s].present => disk[DestOf(s)].episodes[f] = 0
  /\ EnqueueMediaFetch(s, f)
  /\ UNCHANGED <<worker, stop_event, started, now, disk, call, paths>>

\* Requests arrive only while the worker waits on an empty queue.
Quiet == queue = <<>> /\ worker.pc \in {"loop", "get"}

\* The daemon in an environment: the subscription lists the config file takes,
\* the files clients ask for, the feeds and payload sizes publishers serve, the
\* points where the handlers fail, whether the save of _register_failure may
\* fail too, and whether requests and reloads wait for the worker (quiet).
NextIn(lists, files, feeds, sizes, rfails, mfails, crashes, quiet) ==
  \/ \E subs \in lists : Start(subs)
  \/ \E subs \in lists : (quiet => Quiet) /\ Reload(subs)
  \/ \E s \in Shows : (quiet => Quiet) /\ RequestFeed(s)
  \/ \E s \in Shows, f \in files : (quiet => Quiet) /\ RequestMedia(s, f)
  \/ WorkerLoop
  \/ WorkerTimeout
  \/ WorkerGet
  \/ \E feed \in feeds, fail \in rfails, save_fails \in crashes :
        RefreshDone(feed, fail, save_fails)
  \/ \E size \in sizes, fail \in mfails, save_fails \in crashes :
        MediaDone(size, fail, save_fails)

\* Scheduling: one subscription that comes and goes while requests arrive at
\* any moment, a publisher that is unreachable or serves a feed without
\* episodes, payloads that fit the budget or exceed it, storage that may fail
\* at any write, a mirror step that does not raise. The daemon is not shut
\* down.
NextSched ==
  NextIn({<<>>, <<"a">>}, {"f1"}, {Feed(<<>>)},
         {1, MaxBytesPerShow + 1}, RefreshFailPoints \ {"mirror"},
         MediaFailPoints \ {"evict_write", "mirror"}, BOOLEAN, FALSE)

Spec == Init /\ [][NextSched]_vars

\* The cache: two subscriptions of one destination, requests that wait for the
\* worker, payloads that fill the budget, a publisher whose feed may be
\* unreachable or malformed, storage that fails only in eviction, and
\* shutdown.
NextCache ==
  \/ NextIn({<<"a">>, <<"a", "b">>}, {"f1", "f2"},
            {Feed(<<>>), Feed(<< <<"f1">> >>), MalformedFeed},
            {MaxBytesPerShow}, {"none", "fetch"}, {"none", "evict_write"},
            {FALSE}, TRUE)
  \/ Stop

SpecCache == Init /\ [][NextCache]_vars

\* time.time() returns a later time.
Tick ==
  /\ now < MaxTime
  /\ now' = now + 1
  /\ UNCHANGED <<show_contexts, queue, worker, stop_event, started, disk, call, paths>>

\* Serving: one subscription, requests that wait for the worker, a publisher
\* whose feed may be unreachable, malformed, empty or list an episode,
\* handlers that may fail at any of their points, and a clock that advances.
NextServe ==
  \/ NextIn({<<"a">>}, {"f1"}, {Feed(<<>>), Feed(<< <<"f1">> >>), MalformedFeed},
            {1}, RefreshFailPoints, MediaFailPoints, BOOLEAN, TRUE)
  \/ Tick

SpecServe == Init /\ [][NextServe]_vars

\* ------------------------------------------------------- properties of Spec

CountJobs(q, j) == Cardinality({k \in 1..Len(q) : q[k] = j})

\* C1: at every moment the queue holds at most one Refresh job per show_id.
C1_AtMostOneRefreshQueued ==
  \A s \in Shows : CountJobs(queue, RefreshJob(s)) <= 1

\* The Media jobs for (s, f) that are queued or in the worker's hands.
MediaJobsFor(s, f) ==
  CountJobs(queue, MediaJob(s, f))
    + (IF worker.pc = "media" /\ worker.job = MediaJob(s, f) THEN 1 ELSE 0)

\* C2: for each show and filename at most one Media job is queued or being
\* handled at any moment.
C2_AtMostOneMediaJob ==
  \A s \in Shows, f \in Files : MediaJobsFor(s, f) <= 1

\* C4: no exception leaves a job handler, whatever fails (the save of
\* _register_failure included): the worker thread never dies of one.
C4_WorkerSurvives == worker.pc # "crashed"

\* A step in which the worker's handler registers a failure for the live
\* context of show s: it ends a Refresh job with a positive failure_count (a
\* refresh that succeeds leaves 0), or a Media job with a changed one.
RegistersFailure(s) ==
  /\ worker.pc \in {"refresh", "media"}
  /\ worker.job.show_id = s
  /\ ~worker.detached
  /\ worker'.pc \in {"loop", "crashed"}
  /\ show_contexts'[s].state.failure_count > 0
  /\ \/ worker.pc = "refresh"
     \/ show_contexts'[s].state.failure_count # show_contexts[s].state.failure_count

\* The delay register_failure chose with a failure_count of n.
DelayOfCount(n) == RetryBackoffSeconds * Min(Pow2(n), 8)

\* C6: over consecutive failures of a show with no successful refresh in
\* between, the delay chosen at a failure (next_refresh_time minus the time of
\* registration) is at least the delay chosen at the failure before it, and
\* at most 8 * retry_backoff_seconds. (A positive failure_count n before the
\* step says that the last refresh did not succeed and that the failure before
\* chose DelayOfCount(n).)
C6_BackoffNonDecreasing ==
  [][\A s \in Shows :
       RegistersFailure(s) =>
         LET delay == show_contexts'[s].next_refresh_time - now
             before == show_contexts[s].state.failure_count
         IN /\ delay <= 8 * RetryBackoffSeconds
            /\ before > 0 => delay >= DelayOfCount(before)]_vars

\* A step in which the worker finishes a Media job for (s, f) that it handled
\* on the live context of s: the handler found the file cached, or returned
\* or raised after its fetch.
FinishesMedia(s, f) ==
  \/ /\ worker.pc = "get"
     /\ queue # <<>> /\ Head(queue) = MediaJob(s, f)
     /\ show_contexts[s].present
     /\ worker'.pc = "loop"
  \/ /\ worker.pc = "media"
     /\ worker.job = MediaJob(s, f)
     /\ ~worker.detached
     /\ worker'.pc \in {"loop", "crashed"}

\* C7: once the worker has finished a Media job for (show, filename), whatever
\* its outcome, filename is not in the show's media_pending, so that
\* enqueue_media_fetch would push a job for it again.
C7_MediaPendingCleared ==
  [][\A s \in Shows, f \in Files :
       FinishesMedia(s, f) =>
         /\ f \notin show_contexts'[s].media_pending
         /\ show_contexts'[s].present /\ MediaEligible(show_contexts'[s], f)]_vars

\* C7, its case: a Media job has stored f1, its handler raised at a later
\* write, and f1 is not pending.
C7_Witness ==
  /\ worker.pc = "loop"
  /\ show_contexts["a"].present
  /\ disk[DestOf("a")].episodes["f1"] > 0
  /\ show_contexts["a"].state.last_error = "io"
  /\ "f1" \notin show_contexts["a"].media_pending

\* ------------------------------------------------- properties of SpecServe

\* get_cached_rss(show_id): the content of client_rss.xml, or None (NoFeed).
GetCachedRss(s) ==
  IF ~show_contexts[s].present THEN NoFeed
  ELSE disk[DestOf(s)].client

\* C11: once a show's client feed has been written, the feed stays servable
\* while the show stays subscribed; a job that registers a failure leaves the
\* cached client feed as it was, and a refresh that fails at the fetch or at
\* the parse deletes no episode file.
C11_StaleButAvailable ==
  [][\A s \in Shows :
       LET d == DestOf(s) IN
       /\ show_contexts[s].present /\ show_contexts'[s].present
            /\ GetCachedRss(s).present
            => GetCachedRss(s)'.present
       /\ RegistersFailure(s) /\ disk[d].client.present
            => disk'[d].client = disk[d].client
       /\ RegistersFailure(s) /\ worker.pc = "refresh"
            /\ show_contexts'[s].state.last_error \in {"fetch", "parse"}
            => disk'[d].episodes = disk[d].episodes]_vars

\* C26: an exception raised in the mirror step that follows a refresh or a
\* media fetch does not fail the job: _register_failure is not called for it,
\* so it never becomes a show's last_error and never counts as a failure.
C26_MirrorFailureIgnored ==
  \A s \in Shows :
    /\ show_contexts[s].state.last_error # "mirror"
    /\ disk[DestOf(s)].state.last_error # "mirror"

\* ------------------------------------------- the methods, one call at a time

\* The daemon running with one subscription whose context is c, its directory
\* dir, at time t, and no call made yet.
InitCall(c, dir, t) ==
  /\ show_contexts = [s \in Shows |-> IF s = "a" THEN c ELSE NoCtx]
  /\ queue = IF c.refresh_pending THEN <<RefreshJob("a")>> ELSE <<>>
  /\ worker = [IdleWorker EXCEPT !.pc = "loop"]
  /\ stop_event = FALSE
  /\ started = TRUE
  /\ now = t
  /\ disk = [d \in Dests |-> dir]
  /\ call = NoCall
  /\ paths = NoFiles

\* The contexts enqueue_refresh may find: none, or one with any pending flag,
\* time of the last refresh and end of backoff.
EnqueueContexts ==
  {NoCtx} \cup
  {[NewContext([DefaultState EXCEPT !.last_refresh = l])
      EXCEPT !.refresh_pending = p, !.next_refresh_time = n] :
     l \in 0..MaxTime, p \in BOOLEAN, n \in 0..(MaxTime + 1)}

InitEnqueue == \E c \in EnqueueContexts, t \in 1..MaxTime : InitCall(c, EmptyShowDir, t)

\* One call of enqueue_refresh(s, force=force), recorded with the state it found.
CallEnqueueRefresh(s, force) ==
  /\ call = NoCall
  /\ EnqueueRefresh(s, force)
  /\ call' = [op |-> "enqueue_refresh", show_id |-> s, force |-> force,
              contexts |-> show_contexts, queue |-> queue]
  /\ UNCHANGED <<worker, stop_event, started, now, disk, paths>>

NextEnqueue == \E s \in Shows, force \in BOOLEAN : CallEnqueueRefresh(s, force)

SpecEnqueue == InitEnqueue /\ [][NextEnqueue]_vars

\* C3: enqueue_refresh pushes exactly one Refresh job and sets refresh_pending
\* if and only if the show is subscribed, refresh_pending is false and either
\* force is true, or both (last_refresh is unset or now - last_refresh >=
\* rss_poll_seconds) and now >= next_refresh_time; in every other case the
\* queue and the contexts are left as they were.
C3_EnqueueRefreshIff ==
  call.op = "enqueue_refresh" =>
    LET s == call.show_id
        c == call.contexts[s]
        pushes == /\ c.present
                  /\ ~c.refresh_pending
                  /\ \/ call.force
                     \/ /\ \/ c.state.last_refresh = 0
                           \/ now - c.state.last_refresh >= RssPollSeconds
                        /\ now >= c.next_refresh_time
    IN IF pushes
       THEN /\ queue = Append(call.queue, RefreshJob(s))
            /\ show_contexts = [call.contexts EXCEPT ![s].refresh_pending = TRUE]
       ELSE /\ queue = call.queue
            /\ show_contexts = call.contexts

\* C3, its case: an unforced call exactly rss_poll_seconds after the last
\* refresh and exactly at the end of a backoff has pushed the job.
C3_Witness ==
  /\ call.op = "enqueue_refresh" /\ ~call.force
  /\ call.contexts[call.show_id].state.last_refresh > 0
  /\ now - call.contexts[call.show_id].state.last_refresh = RssPollSeconds
  /\ call.contexts[call.show_id].next_refresh_time = now
  /\ queue = <<RefreshJob(call.show_id)>>
  /\ show_contexts[call.show_id].refresh_pending

\* The contexts _register_failure may find: any failure_count, last_error and
\* end of backoff, with or without a state.json written before.
FailureContexts ==
  {[NewContext([DefaultState EXCEPT !.failure_count = n, !.last_error = e])
      EXCEPT !.next_refresh_time = r] :
     n \in 0..MaxCount, e \in {"none"} \cup Messages, r \in {0, MaxTime}}

InitFailure ==
  \E c \in FailureContexts, t \in 1..MaxTime, written \in BOOLEAN :
    InitCall(c, IF written THEN Saved(EmptyShowDir, c.state) ELSE EmptyShowDir, t)

\* One call of _register_failure(context of s, message), whose save_show_state
\* raises when save_fails.
CallRegisterFailure(s, message, save_fails) ==
  /\ call = NoCall
  /\ show_contexts[s].present
  /\ LET a == AfterFailure([ctx |-> show_contexts[s], dir |-> disk[DestOf(s)],
                            msg |-> message], save_fails, now)
     IN /\ show_contexts' = [show_contexts EXCEPT ![s] = a.ctx]
        /\ disk' = [disk EXCEPT ![DestOf(s)] = a.dir]
  /\ call' = [op |-> "register_failure", show_id |-> s, message |-> message,
              raised |-> save_fails, contexts |-> show_contexts]
  /\ UNCHANGED <<queue, worker, stop_event, started, now, paths>>

NextFailure ==
  \E s \in Shows, message \in Messages, save_fails \in BOOLEAN :
    CallRegisterFailure(s, message, save_fails)

SpecFailure == InitFailure /\ [][NextFailure]_vars

\* C5: register_failure sets last_error to the message, increments
\* failure_count by exactly 1, sets next_refresh_time to now +
\* retry_backoff_seconds * min(2^failure_count, 8) with the incremented count,
\* changes nothing else of the context, and (unless the write raises) leaves
\* the updated ShowState in state.json.
C5_RegisterFailure ==
  call.op = "register_failure" =>
    LET s == call.show_id
        before == call.contexts[s]
        c == show_contexts[s]
        count == before.state.failure_count + 1
    IN /\ c.state = [before.state EXCEPT !.last_error = call.message,
                                         !.failure_count = count]
       /\ c.next_refresh_time = now + RetryBackoffSeconds * Min(Pow2(count), 8)
       /\ c = [before EXCEPT !.state = c.state, !.next_refresh_time = c.next_refresh_time]
       /\ ~call.raised => /\ disk[DestOf(s)].has_state
                          /\ disk[DestOf(s)].state = c.state

\* C5, its case: a failure registered where 2^failure_count exceeds the cap,
\* and written to state.json.
C5_Witness ==
  /\ call.op = "register_failure" /\ ~call.raised
  /\ show_contexts[call.show_id].state.failure_count = 4
  /\ show_contexts[call.show_id].next_refresh_time = now + 8 * RetryBackoffSeconds
  /\ disk[DestOf(call.show_id)].state.failure_count = 4

\* The entries a cached_episodes list may hold, and the lists of up to n of
\* them with distinct filenames.
CacheEntries ==
  {CachedEpisode(f, r, z) : f \in Files, r \in 0..(MaxEpisodes - 1), z \in Sizes}

RECURSIVE CacheLists(_)
CacheLists(n) ==
  IF n = 0 THEN {<<>>}
  ELSE LET shorter == CacheLists(n - 1)
           longest == {q \in shorter : Len(q) = n - 1}
       IN shorter \cup
          {Append(p[1], p[2]) :
             p \in {x \in longest \X CacheEntries : x[2].filename \notin CachedFilenames(x[1])}}

\* The cache of test_cache_eviction_removes_oldest_media_and_updates_state
\* with the sizes of the specification's example.
ExampleCache ==
  <<CachedEpisode("f1", 0, 4), CachedEpisode("f2", 1, 5), CachedEpisode("f3", 2, 6)>>

\* The size cached records for filename f (0: no entry).
RECURSIVE SizeIn(_, _)
SizeIn(cached, f) ==
  IF cached = <<>> THEN 0
  ELSE IF Head(cached).filename = f THEN Head(cached).size_bytes
       ELSE SizeIn(Tail(cached), f)

\* A show directory holding the files of cached, those of gone excepted.
DirOf(cached, gone) ==
  [Saved(EmptyShowDir, [DefaultState EXCEPT !.cached_episodes = cached])
     EXCEPT !.episodes = [f \in Files |-> IF f \in gone THEN 0 ELSE SizeIn(cached, f)]]

InitEvict ==
  \E cached \in CacheLists(MaxEpisodes) \cup {ExampleCache},
     gone \in {{}} \cup {{f} : f \in Files} :
    InitCall(NewContext([DefaultState EXCEPT !.cached_episodes = cached]),
             DirOf(cached, gone), 1)

\* One call of _ensure_space_for(context of s, new_size) under a budget of
\* max_bytes, recorded with what it found and what it returned.
CallEnsureSpaceFor(s, new_size, max_bytes) ==
  /\ call = NoCall
  /\ show_contexts[s].present
  /\ LET d == DestOf(s)
         r == EnsureSpaceFor(show_contexts[s].state.cached_episodes, disk[d].episodes,
                             new_size, max_bytes)
         c == [show_contexts[s] EXCEPT !.state.cached_episodes = r.cached]
         dir == [disk[d] EXCEPT !.episodes = r.episodes]
     IN /\ show_contexts' = [show_contexts EXCEPT ![s] = c]
        /\ disk' = [disk EXCEPT ![d] = IF r.saves THEN Saved(dir, c.state) ELSE dir]
        /\ call' = [op |-> "ensure_space_for", show_id |-> s, new_size |-> new_size,
                    max_bytes |-> max_bytes, ok |-> r.ok,
                    contexts |-> show_contexts, disk |-> disk]
  /\ UNCHANGED <<queue, worker, stop_event, started, now, paths>>

NextEvict ==
  \/ \E s \in Shows, new_size \in 1..MaxNewSize, max_bytes \in 0..MaxBudget :
        CallEnsureSpaceFor(s, new_size, max_bytes)
  \/ CallEnsureSpaceFor("a", 6, 10)

SpecEvict == InitEvict /\ [][NextEvict]_vars

Entries(cached) == {cached[k] : k \in 1..Len(cached)}

\* The call of the example: ranks [0,1,2], sizes [4,5,6], budget 10, 6 bytes.
ExampleCall ==
  /\ call.op = "ensure_space_for"
  /\ call.contexts[call.show_id].state.cached_episodes = ExampleCache
  /\ call.disk[DestOf(call.show_id)].episodes = DirOf(ExampleCache, {}).episodes
  /\ call.new_size = 6 /\ call.max_bytes = 10

\* The example evicts ranks 2 and 1 and keeps rank 0.
ExampleResult ==
  /\ show_contexts[call.show_id].state.cached_episodes = <<ExampleCache[1]>>
  /\ disk[DestOf(call.show_id)].episodes = DirOf(<<ExampleCache[1]>>, {}).episodes
  /\ call.ok

\* C8 as stated: after ensure_space_for every kept episode has a smaller rank
\* than every evicted one, and the example evicts ranks 2 and 1 and keeps rank 0.
C8_KeptStrictlyNewer ==
  call.op = "ensure_space_for" =>
    LET kept == Entries(show_contexts[call.show_id].state.cached_episodes)
        evicted == Entries(call.contexts[call.show_id].state.cached_episodes) \ kept
    IN /\ \A e \in evicted, k \in kept : k.order_index < e.order_index
       /\ ExampleCall => ExampleResult

\* C8, amended: ensure_space_for never evicts an episode of rank r while
\* keeping one of rank greater than r (episodes of equal rank may be split),
\* and the example evicts ranks 2 and 1 and keeps rank 0.
C8_NeverKeepsOlder ==
  call.op = "ensure_space_for" =>
    LET kept == Entries(show_contexts[call.show_id].state.cached_episodes)
        evicted == Entries(call.contexts[call.show_id].state.cached_episodes) \ kept
    IN /\ \A e \in evicted, k \in kept : ~(k.order_index > e.order_index)
       /\ ExampleCall => ExampleResult

\* C8, its case: the call of the example has been made.
C8_Witness == ExampleCall /\ ExampleResult

\* ---------------------------------------------------------- the HTTP server

\* The <show_path> segment of a request path, after unquote: a destination
\* hash (that of the shows, another valid one, one that is too short or not
\* hexadecimal), a colon or none, and a show name that may be empty;
\* NoShowPath is the empty segment.
ShowPaths ==
  [hash : {"d1", "d2", "invalid"}, colon : BOOLEAN, name : Shows \cup {""}]
NoShowPath == [hash |-> "", colon |-> FALSE, name |-> ""]

\* parsing._validate_destination_show
ValidDestinationShow(hash, name) == hash \in {"d1", "d2"} /\ name # ""

\* A show_id_from_path that takes the name for the show_id.
ShowIdFromPathLax(show_path) == show_path.name

\* show_id_from_path: "<destination_hash>:<show_name>", the show_id of a show
\* of Shows when the hash is its destination ("other": a show_id no
\* subscription has), or None ("none") when decode_show_path raises.
ShowIdFromPath(show_path) ==
  IF ~show_path.colon \/ ~ValidDestinationShow(show_path.hash, show_path.name)
  THEN "none"
  ELSE IF show_path.hash = DestOf(show_path.name) THEN show_path.name ELSE "other"

\* The filename segment of a media request, after unquote: the name of a file,
\* or a string sanitize_filename rejects; NoSegment is a path that ends after
\* the show path.
NoSegment == "(none)"
InvalidFilenames == {"", "a/b", ".."}
Filenames == Files \cup InvalidFilenames

\* A sanitize_filename that accepts every string.
SanitizeFilenameLax(filename) == TRUE

\* parsing.sanitize_filename
SanitizeFilename(filename) ==
  /\ filename # ""
  /\ filename \notin {"a/b", ".."}

\* The Range header: absent, one that RANGE_RE does not match, or
\* bytes=<start>-<end> where each number may be the empty string (NoNumber).
NoNumber == -1
RangeHeader(form, start, end) == [form |-> form, start |-> start, end |-> end]
NoRange == RangeHeader("absent", NoNumber, NoNumber)
MalformedRange == RangeHeader("malformed", NoNumber, NoNumber)

NoRangeResult == [ok |-> FALSE, start |-> 0, end |-> 0]

\* A _parse_range that does not clamp the end to the size of the file.
ParseRangeUnclamped(header, file_size) ==
  IF header.form # "bytes" \/ header.start = NoNumber \/ header.start >= file_size
  THEN NoRangeResult
  ELSE [ok |-> TRUE, start |-> header.start,
        end |-> IF header.end = NoNumber THEN file_size - 1 ELSE header.end]

\* server._parse_range(range_header, file_size): (start, end), or None (ok
\* FALSE).
ParseRange(header, file_size) ==
  IF header.form # "bytes" THEN NoRangeResult
  ELSE IF header.start = NoNumber /\ header.end = NoNumber THEN NoRangeResult
  ELSE IF header.start = NoNumber
  THEN IF header.end <= 0 THEN NoRangeResult
       ELSE [ok |-> TRUE,
             start |-> IF file_size - header.end > 0 THEN file_size - header.end ELSE 0,
             end |-> file_size - 1]
  ELSE LET start == header.start
           end == Min(IF header.end = NoNumber THEN file_size - 1 ELSE header.end,
                      file_size - 1)
       IN IF start >= file_size \/ start < 0 THEN NoRangeResult
          ELSE IF end < start THEN NoRangeResult
          ELSE [ok |-> TRUE, start |-> start, end |-> end]

\* The bytes of a file of n bytes, each named by its offset, and what
\* handle.seek(start); handle.read(count) returns of them.
Content(n) == [i \in 1..n |-> i - 1]
ReadAt(n, start, count) == SubSeq(Content(n), start + 1, Min(start + count, n))

\* A response: the status, Retry-After (NoNumber: no such header), the feed of
\* the body, Content-Range as first, last and size ("*": first = last =
\* NoNumber; size NoNumber: no such header), Content-Length and the bytes of
\* the body.
Response(status, retry_after, feed, first, last, size, length, body) ==
  [status |-> status, retry_after |-> retry_after, feed |-> feed, first |-> first,
   last |-> last, size |-> size, length |-> length, body |-> body]
ErrorResponse(status) ==
  Response(status, NoNumber, NoFeed, NoNumber, NoNumber, NoNumber, NoNumber, <<>>)

\* get_cached_rss for a show_id that may be none of Shows.
CachedRssOf(show_id) == IF show_id \in Shows THEN GetCachedRss(show_id) ELSE NoFeed

\* get_media_path(show_id, filename): the size of the cached file, 0 for None.
GetMediaPath(show_id, filename) ==
  IF show_id \notin Shows \/ filename \notin Files THEN 0
  ELSE IF ~show_contexts[show_id].present THEN 0
  ELSE disk[DestOf(show_id)].episodes[filename]

\* _handle_feed(path): the calls it makes on the daemon and its response.
HandleFeed(show_path) ==
  LET show_id == ShowIdFromPath(show_path) IN
  IF show_path = NoShowPath THEN [calls |-> <<>>, response |-> ErrorResponse(404)]
  ELSE IF show_id = "none" THEN [calls |-> <<>>, response |-> ErrorResponse(404)]
  ELSE [calls |-> <<[fn |-> "enqueue_refresh", show_id |-> show_id, force |-> FALSE],
                    [fn |-> "get_cached_rss", show_id |-> show_id]>>,
        response |->
          IF ~CachedRssOf(show_id).present
          THEN [ErrorResponse(503) EXCEPT !.retry_after = RssPollSeconds]
          ELSE [ErrorResponse(200) EXCEPT !.feed = CachedRssOf(show_id)]]

\* _handle_media, the part that serves the cached file of file_size bytes.
ServeMedia(header, file_size) ==
  IF header.form = "absent"
  THEN Response(200, NoNumber, NoFeed, NoNumber, NoNumber, NoNumber, file_size,
                ReadAt(file_size, 0, file_size))
  ELSE LET r == ParseRange(header, file_size) IN
       IF ~r.ok
       THEN [ErrorResponse(416) EXCEPT !.size = file_size]
       ELSE Response(206, NoNumber, NoFeed, r.start, r.end, file_size,
                     r.end - r.start + 1, ReadAt(file_size, r.start, r.end - r.start + 1))

\* _handle_media(path): the calls it makes on the daemon and its response.
HandleMedia(show_path, filename, header) ==
  LET show_id == ShowIdFromPath(show_path)
      file_size == GetMediaPath(show_id, filename)
  IN
  IF filename = NoSegment THEN [calls |-> <<>>, response |-> ErrorResponse(404)]
  ELSE IF ~SanitizeFilename(filename) THEN [calls |-> <<>>, response |-> ErrorResponse(400)]
  ELSE IF show_id = "none" THEN [calls |-> <<>>, response |-> ErrorResponse(404)]
  ELSE IF file_size = 0
  THEN [calls |-> <<[fn |-> "get_media_path", show_id |-> show_id, filename |-> filename],
                    [fn |-> "enqueue_media_fetch", show_id |-> show_id,
                     filename |-> filename]>>,
        response |-> ErrorResponse(404)]
  ELSE [calls |-> <<[fn |-> "get_media_path", show_id |-> show_id, filename |-> filename]>>,
        response |-> ServeMedia(header, file_size)]

\* The effect of the calls of a handler on the daemon.
RECURSIVE DaemonCalls(_, _, _)
DaemonCalls(calls, ctxs, q) ==
  IF calls = <<>> THEN [ctxs |-> ctxs, queue |-> q]
  ELSE LET c == Head(calls)
           s == c.show_id
       IN IF c.fn = "enqueue_refresh" /\ s \in Shows /\ ctxs[s].present
             /\ RefreshEligible(ctxs[s], c.force, now)
          THEN DaemonCalls(Tail(calls), [ctxs EXCEPT ![s].refresh_pending = TRUE],
                           Append(q, RefreshJob(s)))
          ELSE IF c.fn = "enqueue_media_fetch" /\ s \in Shows /\ ctxs[s].present
                  /\ MediaEligible(ctxs[s], c.filename)
          THEN DaemonCalls(Tail(calls),
                           [ctxs EXCEPT ![s].media_pending = @ \cup {c.filename}],
                           Append(q, MediaJob(s, c.filename)))
          ELSE DaemonCalls(Tail(calls), ctxs, q)

\* The sizes of a cached file: up to MaxSize bytes, or the 11 bytes of
\* b"hello world".
HelloWorld == 11
HttpSizes == (1..MaxSize) \cup {HelloWorld}
RangeNumbers == (0..MaxSize) \cup {4, HelloWorld, 100, 200}
RangeHeaders ==
  {NoRange, MalformedRange} \cup
  {RangeHeader("bytes", s, e) :
     s \in {NoNumber} \cup RangeNumbers, e \in {NoNumber} \cup RangeNumbers}

\* The show path of a show.
ShowPathOf(s) == [hash |-> DestOf(s), colon |-> TRUE, name |-> s]

\* The contexts a request may find: none, or one with any pending flag and a
\* refresh made or not; the show directory with or without a client feed and a
\* cached f1.
HttpContexts ==
  {NoCtx} \cup
  {[NewContext([DefaultState EXCEPT !.last_refresh = l]) EXCEPT !.refresh_pending = p] :
     l \in {0, 1}, p \in BOOLEAN}

InitHttp ==
  \E c \in HttpContexts, client \in {NoFeed, Feed(<<>>)}, n \in {0} \cup HttpSizes,
     t \in {1, MaxTime} :
    InitCall(c, [EmptyShowDir EXCEPT !.client = client, !.episodes["f1"] = n], t)

\* GET /feeds/<show_path>, recorded with the state it found.
CallHandleFeed(show_path) ==
  /\ call = NoCall
  /\ LET h == HandleFeed(show_path)
         e == DaemonCalls(h.calls, show_contexts, queue)
     IN /\ show_contexts' = e.ctxs
        /\ queue' = e.queue
        /\ call' = [op |-> "handle_feed", show_path |-> show_path, calls |-> h.calls,
                    response |-> h.response, contexts |-> show_contexts, queue |-> queue]
  /\ UNCHANGED <<worker, stop_event, started, now, disk, paths>>

\* GET /media/<show_path>/<filename> with a Range header, recorded with the
\* state it found.
CallHandleMedia(show_path, filename, header) ==
  /\ call = NoCall
  /\ LET h == HandleMedia(show_path, filename, header)
         e == DaemonCalls(h.calls, show_contexts, queue)
     IN /\ show_contexts' = e.ctxs
        /\ queue' = e.queue
        /\ call' = [op |-> "handle_media", show_path |-> show_path, filename |-> filename,
                    header |-> header, calls |-> h.calls, response |-> h.response,
                    contexts |-> show_contexts, queue |-> queue]
  /\ UNCHANGED <<worker, stop_event, started, now, disk, paths>>

\* Any feed request, any media request without a Range header, and any Range
\* header on a request for f1 of show a.
NextHttp ==
  /\ call = NoCall
  /\ \/ \E show_path \in ShowPaths \cup {NoShowPath} : CallHandleFeed(show_path)
     \/ \E show_path \in ShowPaths, filename \in Filenames \cup {NoSegment} :
           CallHandleMedia(show_path, filename, NoRange)
     \/ \E header \in RangeHeaders : CallHandleMedia(ShowPathOf("a"), "f1", header)

SpecHttp == InitHttp /\ [][NextHttp]_vars

\* What one call of enqueue_refresh(s), not forced, makes of the contexts and
\* the queue the request found.
AfterOneRefreshRequest(s) ==
  LET c == call.contexts[s]
  IN IF /\ c.present
        /\ ~c.refresh_pending
        /\ c.state.last_refresh = 0 \/ now - c.state.last_refresh >= RssPollSeconds
        /\ now >= c.next_refresh_time
     THEN /\ queue = Append(call.queue, RefreshJob(s))
          /\ show_contexts = [call.contexts EXCEPT ![s].refresh_pending = TRUE]
     ELSE /\ queue = call.queue
          /\ show_contexts = call.contexts

\* C13: GET /feeds/<show_path> with a well-formed show path calls
\* enqueue_refresh(show_id) exactly once, not forced, and then answers 200
\* with the cached client feed if there is one and 503 with Retry-After =
\* rss_poll_seconds otherwise; a malformed show path answers 404 and enqueues
\* nothing.
C13_FeedRequest ==
  call.op = "handle_feed" =>
    LET path == call.show_path
        wellformed == path.colon /\ path.hash \in {"d1", "d2"} /\ path.name # ""
        show_id == IF path.hash = "d1" THEN path.name ELSE "other"
        subscribed == show_id \in Shows /\ call.contexts[show_id].present
        enqueues == {k \in 1..Len(call.calls) : call.calls[k].fn = "enqueue_refresh"}
    IN IF wellformed
       THEN /\ Cardinality(enqueues) = 1
            /\ call.calls[1] = [fn |-> "enqueue_refresh", show_id |-> show_id,
                                force |-> FALSE]
            /\ IF show_id \in Shows THEN AfterOneRefreshRequest(show_id)
               ELSE queue = call.queue /\ show_contexts = call.contexts
            /\ IF subscribed /\ disk[DestOf(show_id)].client.present
               THEN /\ call.response.status = 200
                    /\ call.response.feed = disk[DestOf(show_id)].client
               ELSE /\ call.response.status = 503
                    /\ call.response.retry_after = RssPollSeconds
       ELSE /\ call.response.status = 404
            /\ call.calls = <<>>
            /\ queue = call.queue /\ show_contexts = call.contexts

\* C13, its case: a request for a show without a client feed was answered 503
\* with Retry-After = rss_poll_seconds and has queued the refresh.
C13_Witness ==
  /\ call.op = "handle_feed"
  /\ call.response.status = 503 /\ call.response.retry_after = RssPollSeconds
  /\ call.queue = <<>> /\ queue = <<RefreshJob("a")>>
  /\ show_contexts["a"].refresh_pending

\* C14: GET /media/<show_path>/<filename> answers 400 for an invalid filename
\* whatever the show path, 404 for an undecodable show path, 404 with exactly
\* one call of enqueue_media_fetch(show_id, filename) when the file is not
\* cached, and serves a cached file without enqueuing anything.
C14_MediaRequest ==
  call.op = "handle_media" /\ call.filename # NoSegment =>
    LET path == call.show_path
        f == call.filename
        decodable == path.colon /\ path.hash \in {"d1", "d2"} /\ path.name # ""
        show_id == IF path.hash = "d1" THEN path.name ELSE "other"
        cached == /\ show_id \in Shows /\ call.contexts[show_id].present
                  /\ disk[DestOf(show_id)].episodes[f] > 0
        enqueues == {k \in 1..Len(call.calls) :
                       call.calls[k].fn \in {"enqueue_media_fetch", "enqueue_refresh"}}
        unchanged == queue = call.queue /\ show_contexts = call.contexts
    IN IF f \notin Files
       THEN call.response.status = 400 /\ enqueues = {} /\ unchanged
       ELSE IF ~decodable
       THEN call.response.status = 404 /\ enqueues = {} /\ unchanged
       ELSE IF ~cached
       THEN /\ call.response.status = 404
            /\ Cardinality(enqueues) = 1
            /\ \A k \in enqueues :
                 call.calls[k] = [fn |-> "enqueue_media_fetch", show_id |-> show_id,
                                  filename |-> f]
            /\ IF show_id \in Shows /\ call.contexts[show_id].present
                  /\ f \notin call.contexts[show_id].media_pending
               THEN /\ queue = Append(call.queue, MediaJob(show_id, f))
                    /\ show_contexts =
                         [call.contexts EXCEPT ![show_id].media_pending = @ \cup {f}]
               ELSE unchanged
       ELSE /\ call.response.status \in {200, 206, 416}
            /\ enqueues = {} /\ unchanged

\* C14, its case: a request for a file that is not cached was answered 404 and
\* has queued its Media job.
C14_Witness ==
  /\ call.op = "handle_media"
  /\ call.response.status = 404
  /\ queue = Append(call.queue, MediaJob("a", "f2"))
  /\ "f2" \in show_contexts["a"].media_pending

\* A request with a Range header of the form bytes=<start>-<end> for a
\* cached file: the header's numbers and the size of the file.
RangeRequest ==
  /\ call.op = "handle_media"
  /\ call.header.form = "bytes"
  /\ call.show_path = ShowPathOf("a") /\ call.filename = "f1"
  /\ call.contexts["a"].present /\ disk[DestOf("a")].episodes["f1"] > 0

\* The response is 206 with Content-Range bytes first-last/n, Content-Length
\* last-first+1 and the bytes first..last of the file as its body.
Partial(first, last, n) ==
  /\ call.response.status = 206
  /\ call.response.first = first /\ call.response.last = last
  /\ call.response.size = n
  /\ call.response.length = last - first + 1
  /\ Len(call.response.body) = last - first + 1
  /\ call.response.body = [i \in 1..(last - first + 1) |-> first + i - 1]

\* The response is 416 with Content-Range bytes */n.
Unsatisfiable(n) ==
  /\ call.response.status = 416
  /\ call.response.first = NoNumber /\ call.response.last = NoNumber
  /\ call.response.size = n

\* C15: for a cached file of n bytes, start-end with start < n and start <=
\* end yields 206 with bytes start..min(end, n-1); start- with start < n
\* yields 206 with bytes start..n-1; -k with k >= 1 yields 206 with the last
\* min(k, n) bytes; a start at or beyond n yields 416 with bytes */n; and
\* bytes=0-4 of the 11 bytes gives 206 with bytes 0-4/11, bytes=100-200 gives
\* 416 with bytes */11.
C15_RangeResponses ==
  RangeRequest =>
    LET n == disk[DestOf("a")].episodes["f1"]
        start == call.header.start
        end == call.header.end
    IN /\ start # NoNumber /\ end # NoNumber /\ start < n /\ start <= end
            => Partial(start, Min(end, n - 1), n)
       /\ start # NoNumber /\ end = NoNumber /\ start < n
            => Partial(start, n - 1, n)
       /\ start = NoNumber /\ end # NoNumber /\ end >= 1
            => Partial(n - Min(end, n), n - 1, n)
       /\ start # NoNumber /\ start >= n => Unsatisfiable(n)
       /\ n = HelloWorld /\ start = 0 /\ end = 4
            => Partial(0, 4, 11) /\ call.response.body = <<0, 1, 2, 3, 4>>
       /\ n = HelloWorld /\ start = 100 /\ end = 200 => Unsatisfiable(11)

\* C15, its case: bytes=0-4 was asked of the 11 bytes and answered 206.
C15_Witness ==
  /\ RangeRequest
  /\ disk[DestOf("a")].episodes["f1"] = HelloWorld
  /\ call.header = RangeHeader("bytes", 0, 4)
  /\ call.response.status = 206
  /\ call.response.body = <<0, 1, 2, 3, 4>>

\* C16: a Range header that is malformed, or whose start and end are both
\* empty, is answered with the full resource and status 200, not with 416.
C16_MalformedRangeFullResponse ==
  /\ call.op = "handle_media"
  /\ call.show_path = ShowPathOf("a") /\ call.filename = "f1"
  /\ call.contexts["a"].present /\ disk[DestOf("a")].episodes["f1"] > 0
  /\ \/ call.header.form = "malformed"
     \/ /\ call.header.form = "bytes"
        /\ call.header.start = NoNumber /\ call.header.end = NoNumber
  => /\ call.response.status = 200
     /\ call.response.body = Content(disk[DestOf("a")].episodes["f1"])

\* -------------------------------------------------------------- _parse_range

\* _parse_range is called with any Range header and the size of any file,
\* the empty file included.
InitRange ==
  /\ \E header \in RangeHeaders, file_size \in {0} \cup HttpSizes :
        call = [op |-> "args", header |-> header, file_size |-> file_size,
                result |-> NoRangeResult]
  /\ show_contexts = [s \in Shows |-> NoCtx]
  /\ queue = <<>>
  /\ worker = IdleWorker
  /\ stop_event = FALSE
  /\ started = FALSE
  /\ now = 1
  /\ disk = [d \in Dests |-> EmptyShowDir]
  /\ paths = NoFiles

\* One call of _parse_range, recorded with what it returned.
CallParseRange ==
  /\ call.op = "args"
  /\ call' = [call EXCEPT !.op = "parse_range",
                          !.result = ParseRange(call.header, call.file_size)]
  /\ UNCHANGED <<show_contexts, queue, worker, stop_event, started, now, disk, paths>>

NextRange == CallParseRange

SpecRange == InitRange /\ [][NextRange]_vars

\* C39: for every Range header and every file size n >= 0, a range (start,
\* end) returned by _parse_range satisfies 0 <= start <= end <= n - 1, so
\* that Content-Length = end - start + 1 >= 1; no range is returned for an
\* empty file.
C39_RangeWithinFile ==
  call.op = "parse_range" /\ call.result.ok =>
    /\ 0 <= call.result.start
    /\ call.result.start <= call.result.end
    /\ call.result.end <= call.file_size - 1
    /\ call.file_size > 0

\* ------------------------------------------------------------- rewrite_rss

\* An <enclosure> of the publisher's feed: its url is a media URL of the
\* nomadcast scheme naming filename (parse_nomadcast_media_url accepts it), or
\* any other url; in the output, a url rewritten to the local server,
\* http://host:port/media/<show_path>/<quoted filename>. A media URL names
\* the show being rewritten (media) or another destination or show (foreign).
MediaEnclosure(f) == [kind |-> "media", filename |-> f]
ForeignEnclosure(f) == [kind |-> "foreign", filename |-> f]
OtherEnclosure == [kind |-> "other", filename |-> "none"]
LocalEnclosure(f) == [kind |-> "local", filename |-> f]

\* The enclosure lists of an item, the items (an <item> is a child of the
\* <channel> or lies elsewhere in the document), and the documents:
\* root.find("channel") succeeds or not, and the items root.findall(".//item")
\* returns, in the order _sorted_items gives them.
RECURSIVE SeqsUpTo(_, _)
SeqsUpTo(S, n) ==
  IF n = 0 THEN {<<>>}
  ELSE LET shorter == SeqsUpTo(S, n - 1)
       IN shorter \cup {Append(q, x) : q \in {y \in shorter : Len(y) = n - 1}, x \in S}

RssFiles == {"f1", "f2"}
Enclosures ==
  {MediaEnclosure(f) : f \in RssFiles} \cup {ForeignEnclosure("f1"), OtherEnclosure}
RssItems ==
  {[in_channel |-> ic, enclosures |-> es] :
     ic \in BOOLEAN, es \in SeqsUpTo(Enclosures, MaxEnclosures)}
Documents ==
  {doc \in {[channel |-> ch, items |-> items] :
              ch \in BOOLEAN, items \in SeqsUpTo(RssItems, MaxItems)} :
     \A k \in 1..Len(doc.items) : doc.items[k].in_channel => doc.channel}

\* The filenames of the media enclosures of an item (nomadcast_enclosures):
\* those parse_nomadcast_media_url accepts, whose destination and show name
\* rewrite_rss discards.
MediaFilenames(item) ==
  {item.enclosures[k].filename :
     k \in {j \in 1..Len(item.enclosures) : item.enclosures[j].kind \in {"media", "foreign"}}}

\* rewrite_rss: whether the item is included.
Include(item, cached_filenames, strict_cached) ==
  IF strict_cached
  THEN MediaFilenames(item) # {} /\ MediaFilenames(item) \subseteq cached_filenames
  ELSE TRUE

\* rewrite_rss: enclosure.set("url", ...) on the media enclosures of an
\* included item.
RewriteItem(item) ==
  [item EXCEPT !.enclosures =
     [k \in 1..Len(item.enclosures) |->
        IF item.enclosures[k].kind \in {"media", "foreign"}
        THEN LocalEnclosure(item.enclosures[k].filename)
        ELSE item.enclosures[k]]]

\* rewrite_rss, its loop from item i on: the positions of the included items.
RECURSIVE IncludedFrom(_, _, _, _, _, _)
IncludedFrom(items, i, cached_filenames, episodes_per_show, strict_cached, included) ==
  IF i > Len(items) \/ Len(included) >= episodes_per_show THEN included
  ELSE IncludedFrom(items, i + 1, cached_filenames, episodes_per_show, strict_cached,
                    IF Include(items[i], cached_filenames, strict_cached)
                    THEN Append(included, i) ELSE included)

\* rewrite_rss, channel.remove(item) for the item children of the channel: the
\* positions, from i on, of the items left where they are.
RECURSIVE LeftInPlace(_, _)
LeftInPlace(doc, i) ==
  IF i > Len(doc.items) THEN <<>>
  ELSE (IF doc.channel /\ doc.items[i].in_channel THEN <<>> ELSE <<i>>)
         \o LeftInPlace(doc, i + 1)

\* rewrite_rss(rss_bytes, ..., cached_filenames, episodes_per_show,
\* strict_cached): the items of the document it returns. The included items
\* are rewritten in place; when the document has a <channel>, its item
\* children are removed and the included items appended to it.
RewriteDocument(doc, cached_filenames, episodes_per_show, strict_cached) ==
  LET included == IncludedFrom(doc.items, 1, cached_filenames, episodes_per_show,
                               strict_cached, <<>>)
      out(i) == IF i \in Range(included) THEN RewriteItem(doc.items[i]) ELSE doc.items[i]
      left == LeftInPlace(doc, 1)
  IN [k \in 1..Len(left) |-> out(left[k])]
       \o (IF doc.channel THEN [k \in 1..Len(included) |-> out(included[k])] ELSE <<>>)

\* The daemon at rest and the arguments of one call of rewrite_rss.
InitRewrite ==
  /\ \E doc \in Documents, cached \in SUBSET RssFiles, n \in 1..MaxItems, strict \in BOOLEAN :
        call = [op |-> "args", doc |-> doc, cached_filenames |-> cached,
                episodes_per_show |-> n, strict_cached |-> strict]
  /\ show_contexts = [s \in Shows |-> NoCtx]
  /\ queue = <<>>
  /\ worker = IdleWorker
  /\ stop_event = FALSE
  /\ started = FALSE
  /\ now = 1
  /\ disk = [d \in Dests |-> EmptyShowDir]
  /\ paths = NoFiles

\* One call of rewrite_rss, recorded with what it returned.
CallRewriteRss ==
  /\ call.op = "args"
  /\ call' = [call EXCEPT !.op = "rewrite_rss"]
                @@ [output |-> RewriteDocument(call.doc, call.cached_filenames,
                                               call.episodes_per_show, call.strict_cached)]
  /\ UNCHANGED <<show_contexts, queue, worker, stop_event, started, now, disk, paths>>

NextRewrite == CallRewriteRss

SpecRewrite == InitRewrite /\ [][NextRewrite]_vars

\* The filenames of the nomadcast-scheme media enclosures of an item of the
\* output, rewritten or not.
SchemeFilenames(item) ==
  {item.enclosures[k].filename :
     k \in {j \in 1..Len(item.enclosures) :
              item.enclosures[j].kind \in {"media", "foreign", "local"}}}

LocalFilenames(item) ==
  {item.enclosures[k].filename :
     k \in {j \in 1..Len(item.enclosures) : item.enclosures[j].kind = "local"}}

\* C12: with strict_cached, every item of the output of rewrite_rss has at
\* least one scheme media enclosure, all of its scheme media enclosures name
\* files of cached_filenames, and no rewritten local media URL names a file
\* outside cached_filenames; without strict_cached the first
\* episodes_per_show items are in the output whatever the cache holds.
C12_StrictOutputCached ==
  call.op = "rewrite_rss" =>
    LET out == call.output
        n == Min(Len(call.doc.items), call.episodes_per_show)
    IN /\ call.strict_cached =>
            \A k \in 1..Len(out) :
              /\ SchemeFilenames(out[k]) # {}
              /\ SchemeFilenames(out[k]) \subseteq call.cached_filenames
              /\ LocalFilenames(out[k]) \subseteq call.cached_filenames
       /\ ~call.strict_cached =>
            \A i \in 1..n : \E k \in 1..Len(out) : out[k] = RewriteItem(call.doc.items[i])

\* A document whose items are all children of its <channel>.
ItemsInChannel(doc) == doc.channel /\ \A i \in 1..Len(doc.items) : doc.items[i].in_channel

\* C32: every item of the output of rewrite_rss (for a document whose items
\* are the children of its channel) is one of the first episodes_per_show
\* items of the selected order, rewritten or not; an item at a later
\* position is never in the output, also when the strict filter drops an
\* earlier one.
C32_OutputWithinWindow ==
  call.op = "rewrite_rss" /\ ItemsInChannel(call.doc) =>
    LET n == Min(Len(call.doc.items), call.episodes_per_show)
    IN \A k \in 1..Len(call.output) :
         \E i \in 1..n : call.output[k] \in {call.doc.items[i], RewriteItem(call.doc.items[i])}

\* C33: rewrite_rss (for a document whose items are the children of its
\* channel) rewrites to a local URL only the enclosures that are media URLs
\* of the show being rewritten; with strict_cached, an item of the output
\* has such an enclosure and all of them are cached, whatever its
\* enclosures of other shows and its other urls are.
C33_OnlyOwnEnclosuresRewritten ==
  call.op = "rewrite_rss" /\ ItemsInChannel(call.doc) =>
    LET own(item) == {item.enclosures[j].filename :
                        j \in {e \in 1..Len(item.enclosures) : item.enclosures[e].kind = "media"}}
        rewritten(item) ==
          [item EXCEPT !.enclosures =
             [j \in 1..Len(item.enclosures) |->
                IF item.enclosures[j].kind = "media"
                THEN LocalEnclosure(item.enclosures[j].filename) ELSE item.enclosures[j]]]
    IN \A k \in 1..Len(call.output) :
         \E i \in 1..Len(call.doc.items) :
           /\ call.output[k] = rewritten(call.doc.items[i])
           /\ call.strict_cached =>
                own(call.doc.items[i]) # {}
                  /\ own(call.doc.items[i]) \subseteq call.cached_filenames

\* ------------------------------------------- _handle_media and the worker

\* No response: the handler raised before send_response and the server
\* closed the connection.
NoResponse == ErrorResponse(0)

\* GET /media/<show_path of a>/f1 arrives with any Range header; f1 is in
\* episodes/ with some size, or is not.
InitRace ==
  \E n \in 0..MaxSize, header \in RangeHeaders :
    /\ show_contexts = [s \in Shows |-> IF s = "a" THEN NewContext(DefaultState) ELSE NoCtx]
    /\ queue = <<>>
    /\ worker = [IdleWorker EXCEPT !.pc = "loop"]
    /\ stop_event = FALSE
    /\ started = TRUE
    /\ now = 1
    /\ disk = [d \in Dests |-> [EmptyShowDir EXCEPT !.episodes["f1"] = n]]
    /\ call = [op |-> "get_media", pc |-> "exists", header |-> header, found |-> FALSE,
               response |-> NoResponse]
    /\ paths = NoFiles

\* get_media_path: candidate.exists(); on a miss enqueue_media_fetch and 404.
MediaExists ==
  /\ call.op = "get_media" /\ call.pc = "exists"
  /\ IF disk[DestOf("a")].episodes["f1"] = 0
     THEN /\ EnqueueMediaFetch("a", "f1")
          /\ call' = [call EXCEPT !.pc = "done", !.response = ErrorResponse(404)]
     ELSE /\ call' = [call EXCEPT !.pc = "getsize", !.found = TRUE]
          /\ UNCHANGED <<show_contexts, queue>>
  /\ UNCHANGED <<worker, stop_event, started, now, disk, paths>>

\* os.path.getsize(media_path), which raises FileNotFoundError for a missing
\* file, then the Range header and the response headers.
MediaGetSize ==
  /\ call.op = "get_media" /\ call.pc = "getsize"
  /\ LET file_size == disk[DestOf("a")].episodes["f1"]
         r == ServeMedia(call.header, file_size)
     IN call' = IF file_size = 0 THEN [call EXCEPT !.pc = "raised"]
                ELSE IF r.status = 416 THEN [call EXCEPT !.pc = "done", !.response = r]
                ELSE [call EXCEPT !.pc = "open", !.response = [r EXCEPT !.body = <<>>]]
  /\ UNCHANGED <<show_contexts, queue, worker, stop_event, started, now, disk, paths>>

\* open(media_path, "rb"), which raises FileNotFoundError for a missing file,
\* then handle.read() or handle.seek(start) and handle.read(end - start + 1)
\* on the file that is there now.
MediaRead ==
  /\ call.op = "get_media" /\ call.pc = "open"
  /\ LET n == disk[DestOf("a")].episodes["f1"]
         r == call.response
     IN call' = IF n = 0 THEN [call EXCEPT !.pc = "raised"]
                ELSE IF r.status = 200
                THEN [call EXCEPT !.pc = "done", !.response.body = ReadAt(n, 0, n)]
                ELSE [call EXCEPT !.pc = "done",
                                  !.response.body = ReadAt(n, r.first, r.length)]
  /\ UNCHANGED <<show_contexts, queue, worker, stop_event, started, now, disk, paths>>

\* The worker unlinks f1: path.unlink() of _ensure_space_for or of
\* _load_cached_episodes.
WorkerUnlink ==
  /\ call.op = "get_media"
  /\ disk[DestOf("a")].episodes["f1"] > 0
  /\ disk' = [disk EXCEPT ![DestOf("a")].episodes["f1"] = 0]
  /\ UNCHANGED <<show_contexts, queue, worker, stop_event, started, now, call, paths>>

\* The worker renames a downloaded f1 into episodes/.
WorkerPromote(size) ==
  /\ call.op = "get_media"
  /\ disk[DestOf("a")].episodes["f1"] = 0
  /\ disk' = [disk EXCEPT ![DestOf("a")].episodes["f1"] = size]
  /\ UNCHANGED <<show_contexts, queue, worker, stop_event, started, now, call, paths>>

NextRace ==
  \/ MediaExists
  \/ MediaGetSize
  \/ MediaRead
  \/ WorkerUnlink
  \/ \E size \in 1..MaxSize : WorkerPromote(size)

SpecRace == InitRace /\ [][NextRace]_vars

\* C36: under every interleaving of the steps of a GET /media request with
\* the worker's deletions and promotions of the file, the request ends with
\* status 200, 206, 400, 404 or 416, and a file the handler found cached is
\* answered with 416 or served with as many bytes as Content-Length says.
C36_MediaRequestCompletes ==
  call.op = "get_media" /\ call.pc \in {"done", "raised"} =>
    /\ call.response.status \in {200, 206, 400, 404, 416}
    /\ call.found =>
         /\ call.response.status \in {200, 206, 416}
         /\ call.response.status # 416 =>
              Len(call.response.body) = call.response.length

\* ------------------------------------------------------------ reload_config

\* The contexts reload_config may find for a show: none, or one with any
\* pending flags, end of backoff and order_map.
ReloadContexts ==
  {NoCtx} \cup
  {[NewContext(DefaultState)
      EXCEPT !.refresh_pending = p, !.media_pending = m,
             !.next_refresh_time = n, !.order_map = om] :
     p \in BOOLEAN, m \in SUBSET {"f1"}, n \in {0, MaxTime + 1},
     om \in {<<>>, <<"f1">>}}

\* The show directories reload_config may find: empty, or with a state.json,
\* a client feed and a cached episode from earlier refreshes.
ReloadDirs ==
  {EmptyShowDir,
   [EmptyShowDir EXCEPT !.has_state = TRUE,
                        !.state = [DefaultState EXCEPT !.last_refresh = 1],
                        !.client = Feed(<< <<"f1">> >>),
                        !.episodes = [EmptyDir EXCEPT !["f1"] = 1]]}

\* The jobs queued for the pending flags of show s.
PendingJobs(s, c) ==
  (IF c.refresh_pending THEN <<RefreshJob(s)>> ELSE <<>>)
    \o (IF "f1" \in c.media_pending THEN <<MediaJob(s, "f1")>> ELSE <<>>)

\* The daemon running with any contexts for its shows and an idle worker.
InitReload ==
  \E ca \in ReloadContexts, cb \in ReloadContexts, dir \in ReloadDirs :
    /\ show_contexts = [s \in Shows |-> IF s = "a" THEN ca ELSE cb]
    /\ queue = PendingJobs("a", ca) \o PendingJobs("b", cb)
    /\ worker = [IdleWorker EXCEPT !.pc = "loop"]
    /\ stop_event = FALSE
    /\ started = TRUE
    /\ now = 1
    /\ disk = [d \in Dests |-> dir]
    /\ call = NoCall
    /\ paths = NoFiles

\* One call of reload_config with the subscription list uris.
CallReload(uris) ==
  /\ call = NoCall
  /\ ReloadConfig(uris)
  /\ call' = [op |-> "reload_config", uris |-> uris, contexts |-> show_contexts,
              disk |-> disk]

NextReload == \E uris \in SeqsUpTo(Locators, MaxUris) : CallReload(uris)

SpecReload == InitReload /\ [][NextReload]_vars

\* C17: after reload_config the keys of the show map are the show ids of the
\* valid locators of the subscription list (invalid ones are skipped); a show
\* present before and after keeps its refresh_pending, media_pending,
\* next_refresh_time and order_map; a removed show is absent from the map and
\* no file of a show directory is deleted or modified.
C17_ReloadKeepsContexts ==
  call.op = "reload_config" =>
    LET valid == {call.uris[k] : k \in 1..Len(call.uris)} \ {"bad"}
    IN /\ {s \in Shows : show_contexts[s].present} = valid
       /\ \A s \in Shows :
            call.contexts[s].present /\ show_contexts[s].present =>
              /\ show_contexts[s].refresh_pending = call.contexts[s].refresh_pending
              /\ show_contexts[s].media_pending = call.contexts[s].media_pending
              /\ show_contexts[s].next_refresh_time = call.contexts[s].next_refresh_time
              /\ show_contexts[s].order_map = call.contexts[s].order_map
       /\ \A s \in Shows :
            call.contexts[s].present /\ s \notin valid => show_contexts[s] = NoCtx
       /\ disk = call.disk

\* C17, its case: a list with an invalid locator kept show a, whose pending
\* flags were set, and dropped show b, whose directory holds a cached episode.
C17_Witness ==
  /\ call.op = "reload_config"
  /\ call.uris = <<"bad", "a">>
  /\ call.contexts["a"].refresh_pending /\ show_contexts["a"].refresh_pending
  /\ show_contexts["a"].media_pending = {"f1"}
  /\ show_contexts["a"].order_map = <<"f1">>
  /\ call.contexts["b"].present /\ ~show_contexts["b"].present
  /\ disk[DestOf("b")].episodes["f1"] = 1

\* ----------------------------------------------------------- _handle_refresh

\* The url of an <enclosure>: a media URL of the nomadcast scheme, with its
\* destination hash, show name and filename, or any other url.
MediaUrl(dest, show, f) == [kind |-> "media", dest |-> dest, show |-> show, filename |-> f]
HttpUrl == [kind |-> "other", dest |-> "", show |-> "", filename |-> ""]

\* The filenames of all media URLs, whatever show they name.
AnyMediaFilenames(urls, s) ==
  [k \in 1..Len(SelectSeq(urls, LAMBDA u : u.kind = "media")) |->
     SelectSeq(urls, LAMBDA u : u.kind = "media")[k].filename]

\* _handle_refresh, the loop over item.enclosure_urls: the filenames of the
\* urls parse_nomadcast_media_url accepts and whose destination hash and show
\* name are those of the subscription of show s.
OwnMediaFilenames(urls, s) ==
  LET own == SelectSeq(urls, LAMBDA u : u.kind = "media" /\ u.dest = DestOf(s) /\ u.show = s)
  IN [k \in 1..Len(own) |-> own[k].filename]

\* The feed _handle_refresh works on: each parsed item as the filenames of
\* its media enclosures of show s.
ParsedFeed(raw_items, s) ==
  Feed([k \in 1..Len(raw_items) |-> OwnMediaFilenames(raw_items[k], s)])

\* The enclosure urls of an item and the feeds of a publisher: a first item
\* with any urls, followed or not by an older item.
EnclosureUrls ==
  {MediaUrl("d1", "a", "f1"), MediaUrl("d1", "a", "f2"), MediaUrl("d2", "a", "f3"),
   MediaUrl("d1", "b", "f3"), HttpUrl}
RawFeeds ==
  {<<>>} \cup
  {<<first>> \o rest :
     first \in SeqsUpTo(EnclosureUrls, MaxEnclosures),
     rest \in {<<>>, << <<MediaUrl("d1", "a", "f1")>> >>, << <<MediaUrl("d1", "a", "f3")>> >>}}

\* The state of show a before a refresh: any files in episodes/, listed in
\* cached_episodes, an earlier failure or none, a Media job pending or none.
RECURSIVE ListFiles(_, _)
ListFiles(episodes, fs) ==
  IF fs = <<>> THEN <<>>
  ELSE (IF episodes[Head(fs)] > 0
        THEN <<CachedEpisode(Head(fs), Len(fs), episodes[Head(fs)])>> ELSE <<>>)
         \o ListFiles(episodes, Tail(fs))

InitRefresh ==
  \E episodes \in [Files -> 0..1], failed \in BOOLEAN, pending \in SUBSET {"f1"} :
    LET state == [last_refresh |-> 0,
                  last_error |-> IF failed THEN "fetch" ELSE "none",
                  failure_count |-> IF failed THEN 1 ELSE 0,
                  cached_episodes |-> ListFiles(episodes, <<"f1", "f2", "f3">>)]
        c == [NewContext(state) EXCEPT !.media_pending = pending]
    IN /\ show_contexts = [s \in Shows |-> IF s = "a" THEN c ELSE NoCtx]
       /\ queue = IF pending = {} THEN <<>> ELSE <<MediaJob("a", "f1")>>
       /\ worker = [IdleWorker EXCEPT !.pc = "refresh", !.job = RefreshJob("a")]
       /\ stop_event = FALSE
       /\ started = TRUE
       /\ now = 1
       /\ disk = [d \in Dests |-> Saved([EmptyShowDir EXCEPT !.episodes = episodes], state)]
       /\ call = NoCall
       /\ paths = NoFiles

\* The fetch of the Refresh job of show a returns a feed with the items
\* raw_items (or bytes that do not parse), and the handler runs to its end or
\* raises at fail.
CallHandleRefresh(raw_items, wellformed, fail) ==
  /\ call = NoCall
  /\ HandleRefresh(IF wellformed THEN ParsedFeed(raw_items, "a") ELSE MalformedFeed,
                   fail, FALSE)
  /\ call' = [op |-> "handle_refresh", items |-> raw_items, wellformed |-> wellformed,
              fail |-> fail, contexts |-> show_contexts, queue |-> queue, disk |-> disk]

NextRefresh ==
  \E raw_items \in RawFeeds, wellformed \in BOOLEAN, fail \in RefreshFailPoints :
    CallHandleRefresh(raw_items, wellformed, fail)

SpecRefresh == InitRefresh /\ [][NextRefresh]_vars

C29_WindowQueued ==
  call.op = "handle_refresh" /\ call.wellformed
    /\ call.fail \notin {"fetch", "publisher_write"} =>
    LET n == IF Len(call.items) < EpisodesPerShow THEN Len(call.items) ELSE EpisodesPerShow
        own == {f \in Files :
                  \E i \in 1..n : \E j \in 1..Len(call.items[i]) :
                    call.items[i][j] = MediaUrl("d1", "a", f)}
        queued(q) == {f \in Files : \E k \in 1..Len(q) : q[k] = MediaJob("a", f)}
    IN /\ \A f \in own :
            \/ disk[DestOf("a")].episodes[f] > 0
            \/ f \in show_contexts["a"].media_pending /\ f \in queued(queue)
       /\ queued(queue) \ queued(call.queue) \subseteq own
       /\ show_contexts["a"].media_pending \ call.contexts["a"].media_pending
            \subseteq own

\* C29, its case: the newest item has an enclosure of this show that is not
\* on disk, one of another destination and one that is no media URL; only
\* the first has been queued.
C29_Witness ==
  /\ call.op = "handle_refresh" /\ call.wellformed /\ call.fail = "none"
  /\ Len(call.items) = 2
  /\ call.items[1] = <<MediaUrl("d1", "a", "f2"), MediaUrl("d2", "a", "f3")>>
  /\ call.queue = <<>> /\ queue = <<MediaJob("a", "f2")>>
  /\ show_contexts["a"].media_pending = {"f2"}

\* ------------------------------------------------------------ item selection

\* An RssItem: its position in the document and its pub_date (dated FALSE:
\* no pubDate element, or one that does not parse).
DatedItem(pos, dated, date) == [pos |-> pos, dated |-> dated, date |-> date]

\* key=lambda item: item.pub_date if item.pub_date is not None else 0.
SortKey(item) == IF item.dated THEN item.date ELSE 0

\* A descending sort that puts an item before the earlier items of its date.
RECURSIVE SortedReversingTies(_)
SortedReversingTies(items) ==
  IF items = <<>> THEN <<>>
  ELSE LET rest == SortedReversingTies(SubSeq(items, 1, Len(items) - 1))
           e == items[Len(items)]
           before == SelectSeq(rest, LAMBDA x : SortKey(x) > SortKey(e))
           after == SelectSeq(rest, LAMBDA x : SortKey(x) <= SortKey(e))
       IN before \o <<e>> \o after

\* sorted(items, key=..., reverse=True): descending and stable.
RECURSIVE SortedByDate(_)
SortedByDate(items) ==
  IF items = <<>> THEN <<>>
  ELSE LET rest == SortedByDate(SubSeq(items, 1, Len(items) - 1))
           e == items[Len(items)]
           before == SelectSeq(rest, LAMBDA x : SortKey(x) >= SortKey(e))
           after == SelectSeq(rest, LAMBDA x : SortKey(x) < SortKey(e))
       IN before \o <<e>> \o after

\* _sorted_items(items), and the same lines of _handle_refresh.
SortedItems(items) ==
  IF \E k \in 1..Len(items) : items[k].dated THEN SortedByDate(items) ELSE items

\* The feeds a publisher may serve: up to MaxFeedItems items, each without a
\* date or with one of 0..MaxDate.
PubDates == {[dated |-> FALSE, date |-> 0]} \cup {[dated |-> TRUE, date |-> d] : d \in 0..MaxDate}
DatedFeeds ==
  {[k \in 1..Len(q) |-> DatedItem(k, q[k].dated, q[k].date)] :
     q \in SeqsUpTo(PubDates, MaxFeedItems)}

InitSelect ==
  /\ show_contexts = [s \in Shows |-> NoCtx]
  /\ queue = <<>>
  /\ worker = IdleWorker
  /\ stop_event = FALSE
  /\ started = FALSE
  /\ now = 1
  /\ disk = [d \in Dests |-> EmptyShowDir]
  /\ paths = NoFiles
  /\ \E items \in DatedFeeds : call = [op |-> "args", items |-> items]

\* _handle_refresh: ordered_items and selected_items of the parsed feed.
CallSelect ==
  /\ call.op = "args"
  /\ call' = [op |-> "select", items |-> call.items,
              ordered |-> SortedItems(call.items),
              selected |-> SelectItems(SortedItems(call.items))]
  /\ UNCHANGED <<show_contexts, queue, worker, stop_event, started, now, disk, paths>>

NextSelect == CallSelect

SpecSelect == InitSelect /\ [][NextSelect]_vars

\* C25: if no item has a parseable pubDate the document order is kept; if at
\* least one has, all items are ordered by date descending, undated items
\* counting as epoch 0 and items of equal date staying in document order;
\* the window is the first episodes_per_show items of that order.
C25_SelectionOrder ==
  call.op = "select" =>
    LET items == call.items
        out == call.ordered
        n == Len(items)
        date(x) == IF x.dated THEN x.date ELSE 0
    IN /\ (\A k \in 1..n : ~items[k].dated) => out = items
       /\ (\E k \in 1..n : items[k].dated) =>
            /\ Len(out) = n
            /\ \A k \in 1..n : \E i \in 1..n : out[i] = items[k]
            /\ \A i \in 1..n, j \in 1..n :
                 i < j => \/ date(out[i]) > date(out[j])
                          \/ date(out[i]) = date(out[j]) /\ out[i].pos < out[j].pos
       /\ call.selected = SubSeq(out, 1, IF n < EpisodesPerShow THEN n ELSE EpisodesPerShow)

\* C25, its case: a feed longer than the window whose undated first item
\* ties with an item dated epoch 0 and follows a newer item.
C25_Witness ==
  /\ call.op = "select"
  /\ Len(call.items) = 3
  /\ ~call.items[1].dated
  /\ call.items[2] = DatedItem(2, TRUE, 0)
  /\ call.items[3] = DatedItem(3, TRUE, 1)
  /\ call.ordered = <<call.items[3], call.items[1], call.items[2]>>
  /\ call.selected = SubSeq(call.ordered, 1, EpisodesPerShow)

\* ---------------------------------------------------------------- parsing.py

\* A string is the sequence of its characters.
NOMADCAST_PREFIX == <<"n", "o", "m", "a", "d", "c", "a", "s", "t", ":">>
NOMADCAST_URL_PREFIX == NOMADCAST_PREFIX \o <<"/", "/">>
MEDIA_PREFIX == <<"/", "m", "e", "d", "i", "a", "/">>
RssSuffix == <<"/", "r", "s", "s">>
MIN_DEST_HASH_LEN == 32

\* DEST_HASH_RE: the characters [0-9a-fA-F].
HexChars ==
  {"0", "1", "2", "3", "4", "5", "6", "7", "8", "9",
   "a", "b", "c", "d", "e", "f", "A", "B", "C", "D", "E", "F"}

\* The characters quote(..., safe="") leaves as they are: letters, digits
\* and "_.-~".
Unreserved ==
  HexChars \cup {"g", "i", "m", "n", "o", "r", "s", "t", "R", "U", "_", ".", "-", "~"}

StartsWith(s, prefix) ==
  Len(s) >= Len(prefix) /\ SubSeq(s, 1, Len(prefix)) = prefix
EndsWith(s, suffix) ==
  Len(s) >= Len(suffix) /\ SubSeq(s, Len(s) - Len(suffix) + 1, Len(s)) = suffix
Contains(s, part) ==
  \E i \in 1..(Len(s) - Len(part) + 1) : SubSeq(s, i, i + Len(part) - 1) = part
DropFirst(s, n) == SubSeq(s, n + 1, Len(s))
DropLast(s, n) == SubSeq(s, 1, Len(s) - n)

\* str.split(":", 1) on a string that contains a colon.
FirstColon(s) == CHOOSE i \in 1..Len(s) : s[i] = ":" /\ \A j \in 1..(i - 1) : s[j] # ":"
BeforeColon(s) == SubSeq(s, 1, FirstColon(s) - 1)
AfterColon(s) == SubSeq(s, FirstColon(s) + 1, Len(s))

\* str.strip() and str.rstrip("/").
RECURSIVE RStrip(_, _)
RStrip(s, c) == IF s # <<>> /\ s[Len(s)] = c THEN RStrip(DropLast(s, 1), c) ELSE s
RECURSIVE LStrip(_, _)
LStrip(s, c) == IF s # <<>> /\ s[1] = c THEN LStrip(Tail(s), c) ELSE s
Strip(s) == RStrip(LStrip(s, " "), " ")

\* The two hexadecimal digits of a character's byte, and the character of
\* two hexadecimal digits.
Escape(c) ==
  CASE c = ":" -> <<"%", "3", "A">>
    [] c = "/" -> <<"%", "2", "F">>
    [] c = "%" -> <<"%", "2", "5">>
    [] c = " " -> <<"%", "2", "0">>
    [] OTHER -> <<"%", "3", "F">>
Unescaped(h1, h2) ==
  CASE <<h1, h2>> \in {<<"3", "A">>, <<"3", "a">>} -> ":"
    [] <<h1, h2>> \in {<<"2", "F">>, <<"2", "f">>} -> "/"
    [] <<h1, h2>> = <<"2", "5">> -> "%"
    [] <<h1, h2>> = <<"2", "0">> -> " "
    [] <<h1, h2>> = <<"2", "2">> -> "\""
    [] <<h1, h2>> = <<"5", "2">> -> "R"
    [] <<h1, h2>> = <<"5", "5">> -> "U"
    [] OTHER -> "?"

\* urllib.parse.quote(s, safe="").
RECURSIVE Quote(_)
Quote(s) ==
  IF s = <<>> THEN <<>>
  ELSE (IF Head(s) \in Unreserved THEN <<Head(s)>> ELSE Escape(Head(s))) \o Quote(Tail(s))

\* urllib.parse.unquote(s): every %XX with two hexadecimal digits is replaced,
\* any other "%" stays.
RECURSIVE Unquote(_)
Unquote(s) ==
  IF s = <<>> THEN <<>>
  ELSE IF s[1] = "%" /\ Len(s) >= 3 /\ s[2] \in HexChars /\ s[3] \in HexChars
       THEN <<Unescaped(s[2], s[3])>> \o Unquote(DropFirst(s, 3))
       ELSE <<Head(s)>> \o Unquote(Tail(s))

\* A decoding that unquotes what is already unquoted.
UnquoteTwice(s) == Unquote(Unquote(s))

\* _validate_destination_show: TRUE when it does not raise.
ValidateDestinationShow(destination_hash, show_name) ==
  /\ Len(destination_hash) >= MIN_DEST_HASH_LEN
  /\ \A i \in 1..Len(destination_hash) : destination_hash[i] \in HexChars
  /\ show_name # <<>>

ParseError == [ok |-> FALSE, destination_hash |-> <<>>, show_name |-> <<>>]
Parsed(destination_hash, show_name) ==
  [ok |-> TRUE, destination_hash |-> destination_hash, show_name |-> show_name]

\* The body of a locator split at its first colon and validated.
SplitAndValidate(body) ==
  IF ~Contains(body, <<":">>) THEN ParseError
  ELSE IF ~ValidateDestinationShow(BeforeColon(body), AfterColon(body)) THEN ParseError
  ELSE Parsed(BeforeColon(body), AfterColon(body))

\* encode_show_path(destination_hash, show_name).
EncodeShowPath(destination_hash, show_name) ==
  Quote(destination_hash \o <<":">> \o show_name)

\* The decoding of the show path segment.
DecodeSegment(show_path) == Unquote(show_path)

\* decode_show_path(show_path).
DecodeShowPath(show_path) == SplitAndValidate(DecodeSegment(show_path))

\* parse_subscription_uri(uri).
ParseSubscriptionUri(uri) ==
  IF ~StartsWith(uri, NOMADCAST_PREFIX) THEN ParseError
  ELSE LET stripped == IF StartsWith(uri, NOMADCAST_URL_PREFIX)
                       THEN DropFirst(uri, Len(NOMADCAST_URL_PREFIX))
                       ELSE DropFirst(uri, Len(NOMADCAST_PREFIX))
           body == IF EndsWith(stripped, RssSuffix)
                   THEN DropLast(stripped, Len(RssSuffix)) ELSE stripped
       IN IF Contains(body, MEDIA_PREFIX) THEN ParseError
          ELSE SplitAndValidate(body)

Rejected == [ok |-> FALSE, value |-> <<>>]
Accepted(value) == [ok |-> TRUE, value |-> value]

\* normalize_subscription_input(raw_input).
NormalizeSubscriptionInput(raw_input) ==
  LET stripped == Strip(raw_input)
      trimmed == IF StartsWith(stripped, NOMADCAST_URL_PREFIX)
                 THEN NOMADCAST_PREFIX \o DropFirst(stripped, Len(NOMADCAST_URL_PREFIX))
                 ELSE stripped
  IN IF stripped = <<>> THEN Rejected
     ELSE IF StartsWith(trimmed, NOMADCAST_PREFIX)
          THEN IF EndsWith(trimmed, RssSuffix)
               THEN Accepted(DropLast(trimmed, Len(RssSuffix)))
               ELSE IF Contains(trimmed, MEDIA_PREFIX) THEN Rejected
               ELSE Accepted(RStrip(trimmed, "/"))
          ELSE IF ~Contains(trimmed, <<":">>) THEN Rejected
          ELSE Accepted(NOMADCAST_PREFIX \o trimmed)

RECURSIVE Repeat(_, _)
Repeat(c, n) == IF n = 0 THEN <<>> ELSE <<c>> \o Repeat(c, n - 1)

\* Destination hashes: valid ones of 32 and 33 characters, one with an
\* upper-case digit, one too short, one with a character that is no digit.
ValidHashes ==
  {Repeat("a", MIN_DEST_HASH_LEN), Repeat("a", MIN_DEST_HASH_LEN + 1),
   Repeat("a", MIN_DEST_HASH_LEN - 1) \o <<"F">>}
InvalidHashes ==
  {Repeat("a", MIN_DEST_HASH_LEN - 1), Repeat("a", MIN_DEST_HASH_LEN - 1) \o <<"g">>}

\* Show names of up to MaxName characters, with ':', '/', '%', spaces and
\* digits that make a percent escape.
NameChars == {"s", ":", "/", "%", " ", "2", "5"}
ShowNames == SeqsUpTo(NameChars, MaxName)

\* What a user may paste as a locator.
RawInputs ==
  {pad \o prefix \o hash \o sep \o name \o suffix \o pad :
     pad \in {<<>>, <<" ">>},
     prefix \in {<<>>, NOMADCAST_PREFIX, NOMADCAST_URL_PREFIX},
     hash \in {<<>>, Repeat("a", MIN_DEST_HASH_LEN)} \cup InvalidHashes,
     sep \in {<<>>, <<":">>},
     name \in {<<>>, <<"s">>, <<"s">> \o MEDIA_PREFIX \o <<"f">>},
     suffix \in {<<>>, <<"/">>, RssSuffix}}

\* The arguments of a call: a (destination hash, show name) pair to encode
\* and decode, or a raw locator to normalize and parse.
InitParsing ==
  /\ show_contexts = [s \in Shows |-> NoCtx]
  /\ queue = <<>>
  /\ worker = IdleWorker
  /\ stop_event = FALSE
  /\ started = FALSE
  /\ now = 1
  /\ disk = [d \in Dests |-> EmptyShowDir]
  /\ paths = NoFiles
  /\ \/ \E id \in ValidHashes \cup InvalidHashes, name \in ShowNames :
          call = [op |-> "pair", id |-> id, name |-> name]
     \/ \E raw \in RawInputs : call = [op |-> "raw", raw |-> raw]

\* decode_show_path(encode_show_path(id, name)).
CallShowPathRoundTrip ==
  /\ call.op = "pair"
  /\ call' = [op |-> "show_path", id |-> call.id, name |-> call.name,
              encoded |-> EncodeShowPath(call.id, call.name),
              decoded |-> DecodeShowPath(EncodeShowPath(call.id, call.name))]
  /\ UNCHANGED <<show_contexts, queue, worker, stop_event, started, now, disk, paths>>

\* normalize_subscription_input(raw), then parse_subscription_uri on what it
\* returns.
CallNormalize ==
  /\ call.op = "raw"
  /\ LET normalized == NormalizeSubscriptionInput(call.raw)
     IN call' = [op |-> "normalize", raw |-> call.raw, normalized |-> normalized,
                 parsed |-> IF normalized.ok THEN ParseSubscriptionUri(normalized.value)
                            ELSE ParseError]
  /\ UNCHANGED <<show_contexts, queue, worker, stop_event, started, now, disk, paths>>

NextParsing == CallShowPathRoundTrip \/ CallNormalize

SpecParsing == InitParsing /\ [][NextParsing]_vars

\* C23: for every valid pair (id, name), id hexadecimal with at least 32
\* characters and name non-empty, names with ':', '/', '%' or spaces
\* included, decode_show_path(encode_show_path(id, name)) returns exactly
\* (id, name), and the encoded form has no ':' and no '/'.
C23_ShowPathRoundTrip ==
  call.op = "show_path"
    /\ Len(call.id) >= 32 /\ (\A i \in 1..Len(call.id) : call.id[i] \in HexChars)
    /\ call.name # <<>> =>
    /\ call.decoded.ok
    /\ call.decoded.destination_hash = call.id
    /\ call.decoded.show_name = call.name
    /\ \A i \in 1..Len(call.encoded) : call.encoded[i] \notin {":", "/"}

\* C23, its case: a name made of a percent escape, a colon and a slash was
\* encoded and decoded.
C23_Witness ==
  /\ call.op = "show_path"
  /\ call.name = <<"%", "2", "5">> /\ Len(call.id) = 32
  /\ call.decoded = Parsed(call.id, call.name)
  /\ call.encoded = call.id \o <<"%", "3", "A", "%", "2", "5", "2", "5">>

\* C24: for every input normalize_subscription_input accepts,
\* parse_subscription_uri applied to the normalized result succeeds.
C24_NormalizedParses ==
  call.op = "normalize" /\ call.normalized.ok => call.parsed.ok

\* --------------------------------------------------------------- state.json

\* A JSON value: null, a number, a string, a list or an object; an object's
\* members are a function of its keys.
JsonNull == [t |-> "null"]
JsonNum(n) == [t |-> "num", v |-> n]
JsonStr(s) == [t |-> "str", v |-> s]
JsonList(l) == [t |-> "list", v |-> l]
JsonObject(m) == [t |-> "object", v |-> m]

\* The content of state.json: no file, bytes that are not JSON, or a JSON
\* value.
NoStateFile == [t |-> "absent"]
CorruptStateFile == [t |-> "corrupt"]

\* ShowState(...): last_refresh 0 and last_error "none" stand for None.
ShowState(uri, name, last_refresh, last_error, failure_count, cached_episodes) ==
  [subscription_uri |-> uri, show_name |-> name, last_refresh |-> last_refresh,
   last_error |-> last_error, failure_count |-> failure_count,
   cached_episodes |-> cached_episodes]

\* dict.get(key, default).
Get(m, key, default) == IF key \in DOMAIN m THEN m[key] ELSE default

\* The Python value of a JSON value read where the code expects a number
\* (None is 0), a string (None is "none").
NumOf(j) == IF j.t = "num" THEN j.v ELSE 0
StrOf(j) == IF j.t = "str" THEN j.v ELSE "none"

RECURSIVE MapSeq(_, _)
MapSeq(Op(_), q) == IF q = <<>> THEN <<>> ELSE <<Op(Head(q))>> \o MapSeq(Op, Tail(q))

\* asdict(item) for a CachedEpisode.
EpisodeToJson(e) ==
  JsonObject([filename |-> JsonStr(e.filename), order_index |-> JsonNum(e.order_index),
              size_bytes |-> JsonNum(e.size_bytes)])

\* ShowState.to_json.
ToJson(state) ==
  JsonObject(
    [subscription_uri |-> JsonStr(state.subscription_uri),
     show_name |-> JsonStr(state.show_name),
     last_refresh |-> IF state.last_refresh = 0 THEN JsonNull
                      ELSE JsonNum(state.last_refresh),
     last_error |-> IF state.last_error = "none" THEN JsonNull
                    ELSE JsonStr(state.last_error),
     failure_count |-> JsonNum(state.failure_count),
     cached_episodes |-> JsonList(MapSeq(EpisodeToJson, state.cached_episodes))])

\* CachedEpisode(**item) accepts exactly the three field names.
EpisodeKeys == {"filename", "order_index", "size_bytes"}
EpisodeAccepted(item) == item.t = "object" /\ DOMAIN item.v = EpisodeKeys

EpisodeFromJson(item) ==
  CachedEpisode(StrOf(item.v["filename"]), NumOf(item.v["order_index"]),
                NumOf(item.v["size_bytes"]))

\* A from_json that reads the episodes back to front.
FromJsonReversed(data) ==
  LET eps == Get(data.v, "cached_episodes", JsonList(<<>>)).v
      n == Len(eps)
  IN ShowState(StrOf(Get(data.v, "subscription_uri", JsonStr(""))),
               StrOf(Get(data.v, "show_name", JsonStr(""))),
               NumOf(Get(data.v, "last_refresh", JsonNull)),
               StrOf(Get(data.v, "last_error", JsonNull)),
               NumOf(Get(data.v, "failure_count", JsonNum(0))),
               [i \in 1..n |-> EpisodeFromJson(eps[n + 1 - i])])

\* ShowState.from_json on a JSON object whose episodes CachedEpisode accepts.
FromJson(data) ==
  ShowState(StrOf(Get(data.v, "subscription_uri", JsonStr(""))),
            StrOf(Get(data.v, "show_name", JsonStr(""))),
            NumOf(Get(data.v, "last_refresh", JsonNull)),
            StrOf(Get(data.v, "last_error", JsonNull)),
            NumOf(Get(data.v, "failure_count", JsonNum(0))),
            MapSeq(EpisodeFromJson, Get(data.v, "cached_episodes", JsonList(<<>>)).v))

\* The exception ShowState.from_json raises on a JSON value, "none" if it
\* returns: data.get on a value that is no object, the iteration of a
\* cached_episodes that is no list, CachedEpisode(**item) on an item with
\* missing or unknown keys.
FromJsonRaises(data) ==
  IF data.t # "object" THEN "AttributeError"
  ELSE LET eps == Get(data.v, "cached_episodes", JsonList(<<>>))
       IN IF eps.t # "list" THEN "TypeError"
          ELSE IF \E i \in 1..Len(eps.v) : ~EpisodeAccepted(eps.v[i]) THEN "TypeError"
          ELSE "none"

Returned(state) == [raised |-> "none", state |-> state]
Raised(exc) == [raised |-> exc, state |-> ShowState("", "", 0, "none", 0, <<>>)]

\* load_show_state(state_path, subscription_uri, show_name) on a state.json
\* with content file.
LoadShowStateFile(file, subscription_uri, show_name) ==
  IF file.t \in {"absent", "corrupt"}
  THEN Returned(ShowState(subscription_uri, show_name, 0, "none", 0, <<>>))
  ELSE IF FromJsonRaises(file) # "none" THEN Raised(FromJsonRaises(file))
  ELSE LET state == FromJson(file)
       IN Returned([state EXCEPT
            !.subscription_uri = IF @ = "" THEN subscription_uri ELSE @,
            !.show_name = IF @ = "" THEN show_name ELSE @])

\* save_show_state: the content state.json gets (json.dumps of to_json,
\* read back by json.loads).
SaveShowState(state) == ToJson(state)

\* The states save_show_state is given.
StateEpisodes == {CachedEpisode(f, idx, 1) : f \in {"f1", "f2"}, idx \in 0..1}
ShowStates ==
  {ShowState(uri, name, l, e, n, eps) :
     uri \in {"", "uri"}, name \in {"", "a"}, l \in 0..1, e \in {"none", "", "fetch"},
     n \in 0..1, eps \in SeqsUpTo(StateEpisodes, MaxCached)}

\* The contents load_show_state may find: no file, bytes that are not JSON,
\* JSON that is no object, objects with any of the state's keys, a
\* cached_episodes that is no list, episodes with a missing or an unknown key.
EpisodeItems ==
  {EpisodeToJson(CachedEpisode("f1", 0, 1)),
   JsonObject([filename |-> JsonStr("f1")]),
   JsonObject([filename |-> JsonStr("f1"), order_index |-> JsonNum(0),
               size_bytes |-> JsonNum(1), extra |-> JsonNull]),
   JsonNum(1)}
StateKeySets ==
  {{}, {"cached_episodes"}, {"subscription_uri", "show_name"},
   {"last_refresh", "last_error", "failure_count"},
   {"subscription_uri", "show_name", "last_refresh", "last_error", "failure_count",
    "cached_episodes"}}
StateObjects ==
  {JsonObject([k \in ks |->
      CASE k = "subscription_uri" -> JsonStr(uri)
        [] k = "show_name" -> JsonStr("a")
        [] k = "last_refresh" -> l
        [] k = "last_error" -> JsonStr("fetch")
        [] k = "failure_count" -> JsonNum(1)
        [] OTHER -> eps]) :
     ks \in StateKeySets, uri \in {"", "uri"}, l \in {JsonNull, JsonNum(1)},
     eps \in {JsonNull, JsonNum(1)} \cup
             {JsonList(q) : q \in SeqsUpTo(EpisodeItems, MaxCached)}}
StateFiles ==
  {NoStateFile, CorruptStateFile, JsonNull, JsonNum(1), JsonList(<<>>)} \cup StateObjects

\* The arguments of a call: a state.json to load, or a state to save and
\* load again.
InitState ==
  /\ show_contexts = [s \in Shows |-> NoCtx]
  /\ queue = <<>>
  /\ worker = IdleWorker
  /\ stop_event = FALSE
  /\ started = FALSE
  /\ now = 1
  /\ disk = [d \in Dests |-> EmptyShowDir]
  /\ paths = NoFiles
  /\ \/ \E file \in StateFiles : call = [op |-> "args", file |-> file]
     \/ \E state \in ShowStates : call = [op |-> "state", state |-> state]

\* load_show_state(state_path, "default_uri", "default_name").
CallLoadShowState ==
  /\ call.op = "args"
  /\ call' = [op |-> "load_show_state", file |-> call.file,
              result |-> LoadShowStateFile(call.file, "default_uri", "default_name")]
  /\ UNCHANGED <<show_contexts, queue, worker, stop_event, started, now, disk, paths>>

\* save_show_state(state_path, state), then load_show_state on the file it
\* wrote.
CallSaveThenLoad ==
  /\ call.op = "state"
  /\ call' = [op |-> "save_show_state", state |-> call.state,
              file |-> SaveShowState(call.state),
              result |-> LoadShowStateFile(SaveShowState(call.state),
                                           "default_uri", "default_name")]
  /\ UNCHANGED <<show_contexts, queue, worker, stop_event, started, now, disk, paths>>

NextState == CallLoadShowState \/ CallSaveThenLoad

SpecState == InitState /\ [][NextState]_vars

\* The state.json is absent, is not well-formed JSON, or is well-formed JSON
\* that is not a valid state: no object, a cached_episodes that is no list,
\* or an episode without exactly the three episode fields.
InvalidStateFile(file) ==
  \/ file.t \in {"absent", "corrupt"}
  \/ file.t # "object"
  \/ /\ "cached_episodes" \in DOMAIN file.v
     /\ \/ file.v["cached_episodes"].t # "list"
        \/ \E i \in 1..Len(file.v["cached_episodes"].v) :
             LET item == file.v["cached_episodes"].v[i]
             IN item.t # "object" \/ DOMAIN item.v # EpisodeKeys

\* C21: load_show_state never fails; on a state.json that is absent, not
\* well-formed JSON, or well-formed JSON that is not a valid state, it returns
\* the default ShowState with the supplied subscription uri and show name,
\* failure_count 0 and no cached episodes.
C21_LoadNeverFails ==
  call.op = "load_show_state" =>
    /\ call.result.raised = "none"
    /\ InvalidStateFile(call.file) =>
         call.result.state = ShowState("default_uri", "default_name", 0, "none", 0, <<>>)

\* C22: for every ShowState with non-empty subscription uri and show name,
\* load_show_state after save_show_state returns a state equal to it in
\* every field, cached_episodes in the same order.
C22_SaveLoadRoundTrip ==
  call.op = "save_show_state"
    /\ call.state.subscription_uri # "" /\ call.state.show_name # "" =>
    /\ call.result.raised = "none"
    /\ call.result.state = call.state

\* C22, its case: a state with two cached episodes, a last refresh, an error
\* and a failure count was saved and loaded.
C22_Witness ==
  /\ call.op = "save_show_state"
  /\ call.state.subscription_uri = "uri" /\ call.state.show_name = "a"
  /\ call.state.last_refresh = 1 /\ call.state.last_error = "fetch"
  /\ call.state.failure_count = 1
  /\ call.state.cached_episodes = <<CachedEpisode("f2", 1, 1), CachedEpisode("f1", 0, 1)>>
  /\ call.result.state.cached_episodes = call.state.cached_episodes

\* ------------------------------------------------------------- write_atomic

\* The contents of a file: up to MaxData bytes.
Datas == SeqsUpTo({0, 1}, MaxData)

\* A write that opens the target itself.
WriteInPlace == "target"

\* A write that opens the file in episodes/.
WriteInEpisodes == "final"

\* The path write_atomic opens for writing: target_path with ".tmp" appended
\* to its suffix.
WritePath == "tmp"

\* write_atomic(target_path, data) is called: the target is absent or holds
\* an earlier content, and an earlier call may have left a temp sibling.
InitWrite ==
  \E old \in {Absent} \cup {File(x) : x \in Datas},
     stale \in {Absent, File(<<0>>)}, data \in Datas :
    /\ show_contexts = [s \in Shows |-> NoCtx]
    /\ queue = <<>>
    /\ worker = IdleWorker
    /\ stop_event = FALSE
    /\ started = FALSE
    /\ now = 1
    /\ disk = [d \in Dests |-> EmptyShowDir]
    /\ paths = [target |-> old, tmp |-> stale, final |-> Absent]
    /\ call = [op |-> "write_atomic", pc |-> "open", data |-> data, old |-> old,
               caller |-> "none"]

WriteFrame == UNCHANGED <<show_contexts, queue, worker, stop_event, started, now, disk>>

\* open(tmp_path, "wb"): the file is created or truncated.
WriteOpen ==
  /\ call.op = "write_atomic" /\ call.pc = "open"
  /\ paths' = [paths EXCEPT ![WritePath] = File(<<>>)]
  /\ call' = [call EXCEPT !.pc = "write"]
  /\ WriteFrame

\* handle.write(data), handle.flush(): the bytes reach the file one after the
\* other.
WriteByte ==
  /\ call.op = "write_atomic" /\ call.pc = "write"
  /\ Len(paths[WritePath].data) < Len(call.data)
  /\ paths' = [paths EXCEPT ![WritePath].data =
                  Append(@, call.data[Len(paths[WritePath].data) + 1])]
  /\ UNCHANGED call
  /\ WriteFrame

\* os.fsync(handle.fileno()) and the end of the with block.
WriteSync ==
  /\ call.op = "write_atomic" /\ call.pc = "write"
  /\ Len(paths[WritePath].data) = Len(call.data)
  /\ call' = [call EXCEPT !.pc = "replace"]
  /\ UNCHANGED paths
  /\ WriteFrame

\* tmp_path.replace(target_path): the rename; write_atomic returns.
WriteReplace ==
  /\ call.op = "write_atomic" /\ call.pc = "replace"
  /\ paths' = [target |-> paths[WritePath], tmp |-> Absent, final |-> paths.final]
  /\ call' = [call EXCEPT !.pc = "done"]
  /\ WriteFrame

\* open or write raises OSError (disk full): write_atomic raises, the file it
\* was writing stays as it is.
WriteRaises ==
  /\ call.op = "write_atomic" /\ call.pc \in {"open", "write"}
  /\ call' = [call EXCEPT !.pc = "raised"]
  /\ UNCHANGED paths
  /\ WriteFrame

\* The process is killed: the files stay as they are, except that bytes not
\* yet synced may be missing from the file being written.
WriteCrash ==
  /\ call.op = "write_atomic" /\ call.pc \in {"open", "write", "replace"}
  /\ call' = [call EXCEPT !.pc = "crashed"]
  /\ IF call.pc = "write"
     THEN \E k \in 0..Len(paths[WritePath].data) :
            paths' = [paths EXCEPT ![WritePath].data = SubSeq(@, 1, k)]
     ELSE UNCHANGED paths
  /\ WriteFrame

NextWrite ==
  \/ WriteOpen
  \/ WriteByte
  \/ WriteSync
  \/ WriteReplace
  \/ WriteRaises
  \/ WriteCrash

SpecWrite == InitWrite /\ [][NextWrite]_vars

\* _handle_media_fetch has fetched a payload for a file that is not in
\* episodes/ and calls write_atomic(tmp_dir / filename, payload): an earlier
\* job may have left files in tmp/.
InitPromote ==
  \E old \in {Absent} \cup {File(x) : x \in Datas},
     stale \in {Absent, File(<<0>>)}, payload \in Datas :
    /\ show_contexts = [s \in Shows |-> NoCtx]
    /\ queue = <<>>
    /\ worker = IdleWorker
    /\ stop_event = FALSE
    /\ started = FALSE
    /\ now = 1
    /\ disk = [d \in Dests |-> EmptyShowDir]
    /\ paths = [target |-> old, tmp |-> stale, final |-> Absent]
    /\ call = [op |-> "write_atomic", pc |-> "open", data |-> payload, old |-> old,
               caller |-> "media"]

\* tmp_path.replace(final_path) after write_atomic has returned.
Promote ==
  /\ call.op = "write_atomic" /\ call.pc = "done" /\ call.caller = "media"
  /\ paths' = [paths EXCEPT !.final = paths.target, !.target = Absent]
  /\ call' = [call EXCEPT !.pc = "promoted"]
  /\ WriteFrame

\* The process is killed between write_atomic and the rename into episodes/.
PromoteCrash ==
  /\ call.op = "write_atomic" /\ call.pc = "done" /\ call.caller = "media"
  /\ call' = [call EXCEPT !.pc = "crashed"]
  /\ UNCHANGED paths
  /\ WriteFrame

NextPromote ==
  \/ NextWrite
  \/ Promote
  \/ PromoteCrash

SpecPromote == InitPromote /\ [][NextPromote]_vars

\* C35: at every point of the storing of a downloaded payload, a crash or an
\* error in the middle included, episodes/<filename> is absent or holds the
\* complete payload: get_media_path never returns a file whose content is a
\* strict prefix of the payload. The complete payload is under tmp/ before
\* the rename.
C35_EpisodeNeverPartial ==
  call.op = "write_atomic" /\ call.caller = "media" =>
    /\ paths.final.exists => paths.final = File(call.data)
    /\ call.pc = "done" => paths.target = File(call.data) /\ ~paths.final.exists
    /\ call.pc = "promoted" => paths.final = File(call.data)

\* C35, its cases: the process was killed while the payload was written
\* under tmp/, and episodes/ holds no file; and a payload of two bytes has
\* been renamed into episodes/.
C35_Witness ==
  /\ call.op = "write_atomic" /\ call.caller = "media"
  /\ \/ /\ call.pc = "crashed" /\ paths.tmp.exists
        /\ Len(paths.tmp.data) = 1 /\ Len(call.data) = 2
        /\ ~paths.final.exists
     \/ /\ call.pc = "promoted" /\ Len(call.data) = 2
        /\ paths.final = File(call.data) /\ call.old.exists

\* C20: at every point of write_atomic, a crash between the temp write and
\* the rename included, the target holds its complete previous content (or
\* is absent if it did not exist) or the complete new content; after a
\* successful call no temp sibling of the target remains.
C20_TargetNeverPartial ==
  call.op = "write_atomic" =>
    /\ paths.target = call.old \/ paths.target = File(call.data)
    /\ call.pc = "done" => paths.target = File(call.data) /\ ~paths.tmp.exists

\* C20, its case: the process was killed between the temp write and the
\* rename, and the target still holds its previous content.
C20_Witness ==
  /\ call.op = "write_atomic" /\ call.pc = "crashed"
  /\ paths.tmp = File(call.data)
  /\ call.old.exists /\ call.old.data # call.data
  /\ Len(call.data) = MaxData
  /\ paths.target = call.old

\* ------------------------------------------------- properties of SpecCache

\* What _ensure_space_for does for the Media job in the worker's hands and a
\* payload of new_size bytes.
WorkerEnsureSpaceFor(new_size) ==
  EnsureSpaceFor(WorkerCtx.state.cached_episodes,
                 disk[DestOf(worker.job.show_id)].episodes, new_size, MaxBytesPerShow)

\* C9: with the budget exceeded, ensure_space_for removes every evicted
\* episode from disk and from cached_episodes and returns true exactly when
\* the remaining cached total plus new_size fits the budget; with room
\* enough it evicts nothing and returns true.
C9_TrueIffRemainingFits ==
  worker.pc = "media" =>
    \A new_size \in 1..(MaxBytesPerShow + 1) :
      LET cached == WorkerCtx.state.cached_episodes
          r == WorkerEnsureSpaceFor(new_size)
      IN /\ SumSizes(cached) + new_size <= MaxBytesPerShow =>
              r.ok /\ r.cached = cached
                   /\ r.episodes = disk[DestOf(worker.job.show_id)].episodes
         /\ \A e \in Entries(cached) \ Entries(r.cached) : r.episodes[e.filename] = 0
         /\ r.ok <=> SumSizes(r.cached) + new_size <= MaxBytesPerShow

\* C10: with max_bytes_per_show = B > 0 and a cache that starts empty, the
\* total size of the files in a show's episodes/ directory never exceeds B.
C10_BudgetRespected ==
  \A s \in Shows : SumFiles(disk[DestOf(s)].episodes, Files) <= MaxBytesPerShow

\* The worker is between two jobs.
WorkerIdle == worker.pc \in {"idle", "loop", "get", "stopped"}

\* C27: whenever the worker is idle, for every subscribed show each
\* CachedEpisode.filename of the show's ShowState names a file that exists in
\* the show's episodes/ directory.
C27_CachedEpisodesExist ==
  WorkerIdle =>
    \A s \in Shows :
      show_contexts[s].present =>
        \A k \in 1..Len(show_contexts[s].state.cached_episodes) :
          disk[DestOf(s)].episodes[show_contexts[s].state.cached_episodes[k].filename] > 0

\* C30: in strict cached mode, whenever the worker is idle, every local media
\* enclosure listed in a show's cached client feed refers to a file that
\* exists in the show's episodes/ directory, after any sequence of refreshes,
\* media downloads, evictions and failed jobs.
C30_ServedEnclosuresExist ==
  WorkerIdle =>
    \A s \in Shows :
      LET client == GetCachedRss(s)
      IN show_contexts[s].present /\ client.present =>
           \A k \in 1..Len(client.items) :
             \A j \in 1..Len(client.items[k]) :
               disk[DestOf(s)].episodes[client.items[k][j]] > 0

\* ------------------------------------------- properties of Spec: the locks

WorkerStep ==
  \/ WorkerLoop
  \/ WorkerTimeout
  \/ WorkerGet
  \/ \E fail \in {"none", "fetch"} : RefreshDone(Feed(<<>>), fail, FALSE)
  \/ \E fail \in {"none", "fetch"} : MediaDone(1, fail, FALSE)

\* Shutdown: one subscription, requests at any moment, and stop().
NextStop ==
  \/ NextIn({<<"a">>}, {"f1"}, {Feed(<<>>)}, {1}, {"none", "fetch"},
            {"none", "fetch"}, {FALSE}, FALSE)
  \/ Stop

\* The worker thread keeps running and the fetch in flight returns.
SpecStop == Init /\ [][NextStop]_vars /\ WF_vars(WorkerStep)

\* The worker takes a Refresh or Media job off the queue.
JobStarts ==
  /\ worker.pc = "get" /\ queue # <<>>
  /\ Head(queue).type \in {"refresh", "media"}
  /\ queue' = Tail(queue)

\* C19 as stated: once the stop flag is set the worker starts no further
\* Refresh or Media job, even when jobs are still queued ahead of the Stop
\* job.
C19_NoJobAfterStopFlag == [][stop_event => ~JobStarts]_vars

\* C19: after stop() the worker loop terminates once the job in flight
\* returns; a popped Stop job ends the loop; every test of the loop condition
\* made with the stop flag set ends the loop, jobs queued ahead of the Stop
\* job or not, so the only job the worker can still start is the one its
\* queue.get returns when the loop condition was tested before the flag was
\* set.
C19_StopEndsLoop ==
  /\ [][/\ worker.pc = "get" /\ queue # <<>> /\ Head(queue) = StopJob
             /\ queue' = Tail(queue)
             => worker'.pc = "stopped"
        /\ stop_event /\ worker.pc = "loop" /\ worker' # worker
             => worker'.pc = "stopped"
        /\ worker.pc = "stopped" => worker' = worker /\ queue' = queue]_vars
  /\ [](stop_event /\ worker.pc \in {"loop", "stopped"}
         => [](worker.pc \in {"loop", "stopped"}))
  /\ stop_event ~> worker.pc = "stopped"

\* C19, its case: stop() was called with a Refresh job queued ahead of the
\* Stop job, and the loop has ended without taking it.
C19_Witness ==
  /\ stop_event /\ worker.pc = "stopped"
  /\ queue = <<RefreshJob("a"), StopJob>>
\* --------------------------------------- properties of Spec: the ShowState

\* C31: the ShowState of a show that stays subscribed is changed only by a
\* step of the worker's handler, which takes the ShowContext lock for it; a
\* config reload or a request never changes it.
C31_StateChangedByWorkerOnly ==
  [][\A s \in Shows :
       show_contexts[s].present /\ show_contexts'[s].present
         /\ show_contexts'[s].state # show_contexts[s].state
       => worker.pc \in {"refresh", "media"} /\ worker'.pc # worker.pc]_vars

\* ------------------------------------------------- from request to cache

\* The feeds of a publisher that is reachable and serves well-formed RSS.
LiveFeeds == {Feed(<<>>), Feed(<< <<"f1">> >>), Feed(<< <<"f1", "f2">>, <<"f3">> >>)}

\* A step of the worker thread when every fetch returns a feed or a payload.
LiveWorkerStep ==
  \/ WorkerLoop
  \/ WorkerTimeout
  \/ WorkerGet
  \/ \E feed \in LiveFeeds, fail \in {"none", "mirror"} : RefreshDone(feed, fail, FALSE)
  \/ MediaDone(1, "none", FALSE)

\* One subscription that stays, requests and reloads at any moment, a
\* publisher that answers every fetch, payloads the budget never refuses
\* (the files of the window fit it, which makes it unlimited in effect),
\* storage that works, and no stop().
NextLive ==
  NextIn({<<"a">>}, {"f1", "f2"}, LiveFeeds, {1}, {"none", "mirror"}, {"none"},
         {FALSE}, FALSE)

\* The worker thread keeps running and the fetch in flight returns.
SpecLive == Init /\ [][NextLive]_vars /\ WF_vars(LiveWorkerStep)

\* Show s is served from the cache: the client feed exists (GET /feeds
\* answers 200), the media files of the newest episodes_per_show items of the
\* publisher feed are in episodes/ and listed in the client feed, and nothing
\* is pending.
ServedFromCache(s) ==
  LET dir == disk[DestOf(s)]
      window == SelectItems(dir.publisher.items)
  IN /\ show_contexts[s].present
     /\ dir.publisher.present /\ dir.client.present
     /\ GetCachedRss(s).present
     /\ \A i \in 1..Len(window) : \A j \in 1..Len(window[i]) :
          /\ dir.episodes[window[i][j]] > 0
          /\ \E k \in 1..Len(dir.client.items) : \E m \in 1..Len(dir.client.items[k]) :
               dir.client.items[k][m] = window[i][j]
     /\ ~show_contexts[s].refresh_pending
     /\ show_contexts[s].media_pending = {}

InitGate ==
  \E fail \in {"none", "fetch"} :
    LET o == RefreshOutcome(NewContext(DefaultState), EmptyShowDir, Feed(<<>>), fail, 1)
        a == AfterFailure(o, FALSE, 1)
    IN /\ show_contexts = [s \in Shows |-> IF s = "a" THEN a.ctx ELSE NoCtx]
       /\ queue = <<>>
       /\ worker = [IdleWorker EXCEPT !.pc = "loop"]
       /\ stop_event = FALSE
       /\ started = TRUE
       /\ now = 1
       /\ disk = [d \in Dests |-> a.dir]
       /\ call = NoCall
       /\ paths = NoFiles

\* Requests for the feed and for a file of show a at any moment, a publisher
\* that is reachable or not, and a clock that advances.
NextGate ==
  \/ RequestFeed("a")
  \/ RequestMedia("a", "f1")
  \/ WorkerLoop
  \/ WorkerTimeout
  \/ WorkerGet
  \/ \E feed \in {Feed(<<>>), Feed(<< <<"f1">> >>)}, fail \in {"none", "fetch"} :
        RefreshDone(feed, fail, FALSE)
  \/ \E fail \in {"none", "fetch"} : MediaDone(1, fail, FALSE)
  \/ Tick

SpecGate == InitGate /\ [][NextGate]_vars

\* C37: when the worker starts the fetch of a Refresh job that was queued
\* without force, now >= next_refresh_time and, if a refresh has succeeded
\* before, now - last_refresh >= rss_poll_seconds.
C37_FetchWithinGates ==
  [][worker.pc = "get" /\ worker'.pc = "refresh" =>
       LET c == show_contexts'[worker'.job.show_id]
       IN /\ now >= c.next_refresh_time
          /\ c.state.last_refresh # 0 => now - c.state.last_refresh >= RssPollSeconds]_vars

\* ------------------------------------------ properties of SpecCache: shows

\* C38: a Refresh or Media job of show s leaves every other subscribed show
\* as it is: its ShowState, and the files of its show directory (state.json,
\* the feeds, episodes/), also when both shows have the same destination.
C38_ShowsIsolated ==
  [][\A s \in Shows, other \in Shows :
       s # other /\ worker.pc \in {"refresh", "media"} /\ worker.job.show_id = s
         /\ show_contexts[s].present /\ show_contexts[other].present
       => /\ show_contexts'[other].state = show_contexts[other].state
          /\ disk'[DestOf(other)] = disk[DestOf(other)]]_vars

\* C40: with the positive budget max_bytes_per_show, a Media job whose
\* payload is no larger than the budget and whose handler registers no
\* failure finds room (ensure_space_for returns true) and stores the file in
\* episodes/.
C40_PayloadWithinBudgetStored ==
  [][\A s \in Shows :
       /\ worker.pc = "media" /\ worker.job.show_id = s /\ ~worker.detached
       /\ worker'.pc = "loop"
       /\ show_contexts'[s].state.failure_count = show_contexts[s].state.failure_count
       => disk'[DestOf(s)].episodes[worker.job.payload] > 0]_vars

====
